---- MODULE Spec2Model ----
(***************************************************************************)
(* A model of the graph library of algods: the graph representations       *)
(* (DiGraph, Graph, EdgeWeightedDiGraph, FlowNetwork), the traversal       *)
(* primitives (dfs, bfs), TopologicalSort, the connectivity analyzers,     *)
(* dijkstra and FordFulkerson.                                             *)
(*                                                                         *)
(* Vertex identifiers are the naturals 0, 1, ...; a Rust Vec is a TLA+     *)
(* sequence, so the element the code writes v[i] is At(v, i) = v[i + 1].   *)
(* A fatal abort (panic) sets the variable aborted and ends the behaviour; *)
(* what the aborted call had already written stays written.                *)
(***************************************************************************)
EXTENDS Naturals, Integers, Sequences, FiniteSets, Bags, TLC

VARIABLES
    kind,      \* which graph type this behaviour exercises
    dg,        \* a DiGraph: out_edges, nb_edges, nb_vertices, in_degree
    ug,        \* a Graph (undirected): data, nb_edges, nb_vertices
    wg,        \* an EdgeWeightedDiGraph
    net,       \* a FlowNetwork
    added,     \* history: the endpoint pairs (or weighted edges) add_edge inserted
    fv,        \* history: the edge list the graph was last built from by from_vec
    rr,        \* the value returned by the last g.reverse().reverse()
    aborted    \* a call has panicked

\* The traversal algorithms (dfs, bfs and the structures built on them).
VARIABLES
    task,      \* what runs: "paths", "topo", "cc", "scc" ("none": nothing)
    phase,     \* 1 or 2: paths = DFS then BFS; scc = reverse-graph sort then DFS
    pc,        \* position in the running function
    v0,        \* the origin self.v of DepthFirstSearch / BreadthFirstSearch
    marked,    \* marked of the structure dfs / bfs currently works on
    edge_to,   \* its Vec<N>: edge_to, id or reverse_postorder
    stack,     \* the call stack of dfs: one frame per active call
    queue,     \* the VecDeque of bfs
    loopv,     \* the index v of the outer `for v in 0..nb` loop
    nb_cc,     \* nb_cc / nb_scc
    saved      \* the structure not worked on: marked and its Vec<N>

\* dijkstra and shortest_path_ewdag (they also use task, pc and edge_to).
VARIABLES
    dj_source,       \* the argument source
    dist_to,         \* dist_to
    priority_queue,  \* the BinaryHeap of CurrentNode: a bag of <<vertex, distance>>
    overflow_checks  \* the build panics on integer overflow (debug) or wraps

\* FordFulkerson::find_flows (it also uses task and pc; the network is net).
VARIABLES
    ff_source,       \* the argument source
    ff_destination,  \* the argument destination
    ff_edge_to,      \* the local edge_to: one Option<N> per vertex
    max_flow,        \* the local max_flow
    self_max_flow    \* the field self.max_flow: Option<W>

\* The data structures: PriorityQueue and OrdVecTable (they also use task).
VARIABLES
    pq,        \* a PriorityQueue: vec, kind, n
    pq_log,    \* history: the calls made on pq and what the last delete returned
    table,     \* an OrdVecTable: its vec of Pair
    ceil_res,  \* history: the last call of ceil, its key and what it returned
    del_res,   \* history: what the last call of delete on the table returned
    examined   \* history: the bag of edges a shortest-path pass has examined

gvars == <<kind, dg, ug, wg, net, added, fv, rr, aborted>>

svars == <<task, phase, pc, v0, marked, edge_to, stack, queue, loopv, nb_cc, saved>>

pvars == <<dj_source, dist_to, priority_queue, overflow_checks>>

fvars == <<ff_source, ff_destination, ff_edge_to, max_flow, self_max_flow>>

\* Everything but the graph under construction.
dvars == <<pq, pq_log, table, ceil_res, del_res, examined>>

ovars == <<svars, pvars, fvars, dvars>>

\* Everything but the state of the traversals.
nonsearch == <<gvars, pvars, fvars, dvars>>

\* Option values.
None == [some |-> FALSE, value |-> 0]

Some(x) == [some |-> TRUE, value |-> x]

vars == <<gvars, ovars>>

\* No traversal is running.
SearchIdle ==
    /\ task = "none" /\ phase = 1 /\ pc = "idle" /\ v0 = 0
    /\ marked = <<>> /\ edge_to = <<>> /\ stack = <<>> /\ queue = <<>>
    /\ loopv = 0 /\ nb_cc = 0
    /\ saved = [marked |-> <<>>, edge_to |-> <<>>]

\* No shortest-path computation is running.
DijkstraIdle ==
    /\ dj_source = 0 /\ dist_to = <<>> /\ priority_queue = <<>>
    /\ overflow_checks = TRUE

\* FordFulkerson::new, find_flows not called.
FlowIdle ==
    /\ ff_source = 0 /\ ff_destination = 0 /\ ff_edge_to = <<>> /\ max_flow = 0
    /\ self_max_flow = None

\* No data structure is exercised.
DataIdle ==
    /\ pq = [vec |-> <<>>, kind |-> "Max", n |-> 0]
    /\ pq_log = [inserts |-> 0, deletes |-> 0, stored |-> <<>>, deleted |-> FALSE,
                 res |-> None, expected |-> None]
    /\ table = <<>>
    /\ ceil_res = [called |-> FALSE, key |-> 0, value |-> None]
    /\ del_res = None
    /\ examined = EmptyBag

------------------------------------------------------------------------------
(* Bounds of the model *)

\* Stand-in for N::maximum() of the identifier type (u8::MAX in the tests).
IndexMax == 3

\* add_edge calls are explored while fewer than MaxEdges edges are stored.
MaxEdges == 3

\* FlowNetwork::add_edge calls are explored while fewer than MaxNetEdges edges
\* are stored (its edge lists are ordered).
MaxNetEdges == 2

\* Longest edge list handed to from_vec.
MaxVecLen == 2

\* Edge weights of the weighted graphs.
Weights == {1, 2}

\* add_vertex never checks the vertex count: the model stops growing here.
VertexCap == IndexMax + 1

\* Every value of the identifier type N.
Ids == 0..IndexMax

\* Option values: NoVec / NoGraph are None, SomeVec / SomeGraph are Some(..).
NoVec == [set |-> FALSE, edges |-> <<>>]

SomeVec(edges) == [set |-> TRUE, edges |-> edges]

------------------------------------------------------------------------------
(* Helpers *)

Max(a, b) == IF a >= b THEN a ELSE b

Min(a, b) == IF a <= b THEN a ELSE b

At(v, i) == v[i + 1]

\* Vec::resize(new_size, fill)
Resize(v, new_size, fill) ==
    [i \in 1..new_size |-> IF i <= Len(v) THEN v[i] ELSE fill]

RECURSIVE SumSeq(_)
SumSeq(v) == IF v = <<>> THEN 0 ELSE Head(v) + SumSeq(Tail(v))

\* Sequences over S of length at most n.
SeqsUpTo(S, n) == UNION {[1..k -> S] : k \in 0..n}

------------------------------------------------------------------------------
(* DiGraph  (src/src/graph/directed_graph.rs) *)

DiNew == [out_edges |-> <<>>, nb_edges |-> 0, nb_vertices |-> 0, in_degree |-> <<>>]

DiInitPanics(n) == ~(n < IndexMax)

DiInit(n) ==
    [out_edges |-> [i \in 1..n |-> {}], nb_edges |-> 0, nb_vertices |-> n,
     in_degree |-> [i \in 1..n |-> 0]]

\* The assertion of add_edge, then the two indexings out_edges[s] and in_degree[t].
DiAddEdgePanics(g, s, t) ==
    \/ ~(g.nb_vertices >= Max(s, t))
    \/ s >= Len(g.out_edges)
    \/ t >= Len(g.in_degree)

\* Mutant: counts the edge whether or not the set already held it.
DiAddEdgeAlwaysCounts(g, s, t) ==
    IF ~(g.nb_vertices >= Max(s, t)) \/ s >= Len(g.out_edges)
    THEN g
    ELSE LET g1 == [g EXCEPT !.out_edges[s + 1] = @ \cup {t}]
         IN  IF t >= Len(g.in_degree)
             THEN g1
             ELSE [g1 EXCEPT !.in_degree[t + 1] = @ + 1, !.nb_edges = @ + 1]

\* The graph add_edge leaves behind, as far as the call got.
DiAddEdge(g, s, t) ==
    IF ~(g.nb_vertices >= Max(s, t)) \/ s >= Len(g.out_edges)
    THEN g
    ELSE LET target_is_new == t \notin At(g.out_edges, s)
             ind_t_is_new  == IF target_is_new THEN 1 ELSE 0
             g1 == [g EXCEPT !.out_edges[s + 1] = @ \cup {t}]
         IN  IF t >= Len(g.in_degree)
             THEN g1
             ELSE [g1 EXCEPT !.in_degree[t + 1] = @ + ind_t_is_new,
                             !.nb_edges = @ + ind_t_is_new]

DiAddVertex(g) ==
    [g EXCEPT !.out_edges = Append(@, {}), !.nb_vertices = @ + 1]

DiAddVerticesPanics(g, nb) == ~(g.nb_vertices + nb < IndexMax)

DiAddVertices(g, nb) ==
    [g EXCEPT !.out_edges = Resize(@, g.nb_vertices + nb, {}),
              !.in_degree = Resize(@, g.nb_vertices + nb, 0),
              !.nb_vertices = @ + nb]

\* One iteration of the loop of from_vec; r = [g, ok], ok false once a call panicked.
DiFromVecStep(r, edge) ==
    IF ~r.ok THEN r
    ELSE LET source == edge[1]
             target == edge[2]
             max_vertex == Max(source, target)
             grow == max_vertex >= r.g.nb_vertices
             nb == max_vertex - r.g.nb_vertices + 1
         IN  IF grow /\ DiAddVerticesPanics(r.g, nb)
             THEN [g |-> r.g, ok |-> FALSE]
             ELSE LET g1 == IF grow THEN DiAddVertices(r.g, nb) ELSE r.g
                      g2 == DiAddEdge(g1, source, target)
                  IN  IF DiAddEdgePanics(g1, source, target)
                      THEN [g |-> g2, ok |-> FALSE]
                      ELSE [g |-> [g2 EXCEPT !.in_degree[target + 1] = @ + 1],
                            ok |-> TRUE]

RECURSIVE DiFromVecLoop(_, _)
DiFromVecLoop(r, edges) ==
    IF edges = <<>> THEN r
    ELSE DiFromVecLoop(DiFromVecStep(r, Head(edges)), Tail(edges))

DiFromVec(edges) == DiFromVecLoop([g |-> DiNew, ok |-> TRUE], edges)

\* The inner loop of reverse for one vertex v: one add_edge per out-neighbour,
\* in the set's iteration order (any order gives the same sets and counters).
RECURSIVE DiReverseInner(_, _, _)
DiReverseInner(rev_graph, v, adj_v) ==
    IF adj_v = {} THEN rev_graph
    ELSE LET vertex_w == CHOOSE w \in adj_v : TRUE
             g1 == DiAddEdge(rev_graph, vertex_w, v)
             g2 == [g1 EXCEPT !.in_degree[v + 1] = @ + 1]
         IN  DiReverseInner(g2, v, adj_v \ {vertex_w})

RECURSIVE DiReverseLoop(_, _, _)
DiReverseLoop(g, rev_graph, v) ==
    IF v >= g.nb_vertices THEN rev_graph
    ELSE DiReverseLoop(g, DiReverseInner(rev_graph, v, At(g.out_edges, v)), v + 1)

\* reverse() indexes rev_graph.in_degree, built by init: it cannot panic when
\* init does not.
DiReverse(g) == DiReverseLoop(g, DiInit(g.nb_vertices), 0)

NoGraph == [set |-> FALSE, g |-> DiNew]

SomeGraph(g) == [set |-> TRUE, g |-> g]

\* in_edges(vertex): the sources whose out-set holds the vertex.
DiInEdges(g, vertex) ==
    {source \in 0..(Len(g.out_edges) - 1) : vertex \in At(g.out_edges, source)}

\* in_degree(vertex) of a DiGraph counts in_edges(vertex).
DiInDegree(g, vertex) == Cardinality(DiInEdges(g, vertex))

------------------------------------------------------------------------------
(* Graph, undirected  (src/src/graph/undirected_graph.rs) *)

UgNew == [data |-> <<>>, nb_edges |-> 0, nb_vertices |-> 0]

UgInitPanics(n) == ~(n < IndexMax)

UgInit(n) == [data |-> [i \in 1..n |-> {}], nb_edges |-> 0, nb_vertices |-> n]

UgAddEdgePanics(g, v, w) ==
    \/ ~(g.nb_vertices >= Max(v, w))
    \/ v >= Len(g.data)
    \/ w >= Len(g.data)

UgAddEdge(g, v, w) ==
    IF ~(g.nb_vertices >= Max(v, w)) \/ v >= Len(g.data)
    THEN g
    ELSE LET w_is_new == w \notin At(g.data, v)
             g1 == [g EXCEPT !.data[v + 1] = @ \cup {w}]
         IN  IF w >= Len(g.data)
             THEN g1
             ELSE LET v_is_new == v \notin At(g1.data, w)
                      g2 == [g1 EXCEPT !.data[w + 1] = @ \cup {v}]
                  IN  [g2 EXCEPT !.nb_edges =
                                     @ + (IF v_is_new \/ w_is_new THEN 1 ELSE 0)]

UgAddVertex(g) == [g EXCEPT !.data = Append(@, {}), !.nb_vertices = @ + 1]

UgAddVerticesPanics(g, nb) == ~(g.nb_vertices + nb < IndexMax)

UgAddVertices(g, nb) ==
    [g EXCEPT !.data = Resize(@, g.nb_vertices + nb, {}), !.nb_vertices = @ + nb]

UgFromVecStep(r, edge) ==
    IF ~r.ok THEN r
    ELSE LET vertex_v == edge[1]
             vertex_w == edge[2]
             max_vertex == Max(vertex_v, vertex_w)
             grow == max_vertex >= r.g.nb_vertices
             nb == max_vertex - r.g.nb_vertices + 1
         IN  IF grow /\ UgAddVerticesPanics(r.g, nb)
             THEN [g |-> r.g, ok |-> FALSE]
             ELSE LET g1 == IF grow THEN UgAddVertices(r.g, nb) ELSE r.g
                  IN  [g |-> UgAddEdge(g1, vertex_v, vertex_w),
                       ok |-> ~UgAddEdgePanics(g1, vertex_v, vertex_w)]

RECURSIVE UgFromVecLoop(_, _)
UgFromVecLoop(r, edges) ==
    IF edges = <<>> THEN r
    ELSE UgFromVecLoop(UgFromVecStep(r, Head(edges)), Tail(edges))

UgFromVec(edges) == UgFromVecLoop([g |-> UgNew, ok |-> TRUE], edges)

------------------------------------------------------------------------------
(* EdgeWeightedDiGraph  (src/src/graph/directed_graph.rs) *)

\* WeightedDiEdge::init
WeightedDiEdge(origin, destination, weight) ==
    [from |-> origin, to |-> destination, weight |-> weight]

WgNew == [out_edges |-> <<>>, nb_edges |-> 0, nb_vertices |-> 0, in_degree |-> <<>>]

WgInitPanics(n) == ~(n < IndexMax)

WgInit(n) ==
    [out_edges |-> [i \in 1..n |-> {}], nb_edges |-> 0, nb_vertices |-> n,
     in_degree |-> [i \in 1..n |-> 0]]

WgAddEdgePanics(g, s, t) ==
    \/ ~(g.nb_vertices >= Max(s, t))
    \/ s >= Len(g.out_edges)
    \/ t >= Len(g.in_degree)

WgAddEdge(g, s, t, weight) ==
    IF ~(g.nb_vertices >= Max(s, t)) \/ s >= Len(g.out_edges)
    THEN g
    ELSE LET edge == WeightedDiEdge(s, t, weight)
             target_is_new == edge \notin At(g.out_edges, s)
             ind_t_is_new  == IF target_is_new THEN 1 ELSE 0
             g1 == [g EXCEPT !.out_edges[s + 1] = @ \cup {edge}]
         IN  IF t >= Len(g.in_degree)
             THEN g1
             ELSE [g1 EXCEPT !.in_degree[t + 1] = @ + ind_t_is_new,
                             !.nb_edges = @ + ind_t_is_new]

WgAddVertex(g) ==
    [g EXCEPT !.out_edges = Append(@, {}), !.nb_vertices = @ + 1]

WgAddVerticesPanics(g, nb) == ~(g.nb_vertices + nb < IndexMax)

WgAddVertices(g, nb) ==
    [g EXCEPT !.out_edges = Resize(@, g.nb_vertices + nb, {}),
              !.in_degree = Resize(@, g.nb_vertices + nb, 0),
              !.nb_vertices = @ + nb]

WgFromVecStep(r, edge) ==
    IF ~r.ok THEN r
    ELSE LET source == edge[1]
             target == edge[2]
             weight == edge[3]
             max_vertex == Max(source, target)
             grow == max_vertex >= r.g.nb_vertices
             nb == max_vertex - r.g.nb_vertices + 1
         IN  IF grow /\ WgAddVerticesPanics(r.g, nb)
             THEN [g |-> r.g, ok |-> FALSE]
             ELSE LET g1 == IF grow THEN WgAddVertices(r.g, nb) ELSE r.g
                      g2 == WgAddEdge(g1, source, target, weight)
                  IN  IF WgAddEdgePanics(g1, source, target)
                      THEN [g |-> g2, ok |-> FALSE]
                      ELSE [g |-> [g2 EXCEPT !.in_degree[target + 1] = @ + 1],
                            ok |-> TRUE]

RECURSIVE WgFromVecLoop(_, _)
WgFromVecLoop(r, edges) ==
    IF edges = <<>> THEN r
    ELSE WgFromVecLoop(WgFromVecStep(r, Head(edges)), Tail(edges))

WgFromVec(edges) == WgFromVecLoop([g |-> WgNew, ok |-> TRUE], edges)

\* in_degree(vertex) of an EdgeWeightedDiGraph reads the counter.
WgInDegree(g, vertex) == At(g.in_degree, vertex)

------------------------------------------------------------------------------
(* FlowNetwork  (src/src/graph/directed_graph.rs) *)

\* FlowEdge::init (its assertion flow <= capacity is checked by the callers here)
FlowEdge(from, to, flow, capacity) ==
    [from |-> from, to |-> to, flow |-> flow, capacity |-> capacity]

Contains(v, x) == \E i \in 1..Len(v) : v[i] = x

NetNew ==
    [out_edges |-> <<>>, back_edges |-> <<>>, nb_edges |-> 0, nb_vertices |-> 0,
     in_degree |-> <<>>]

NetInitPanics(n) == ~(n < IndexMax)

NetInit(n) ==
    [out_edges |-> [i \in 1..n |-> <<>>], back_edges |-> [i \in 1..n |-> <<>>],
     nb_edges |-> 0, nb_vertices |-> n, in_degree |-> [i \in 1..n |-> 0]]

\* The two assertions of add_edge, then the indexings of the three vectors; an
\* edge already stored is not pushed, so only out_edges[from] is indexed.
NetAddEdgePanics(g, from, to, flow, cap) ==
    \/ ~(flow <= cap)
    \/ ~(g.nb_vertices >= Max(from, to))
    \/ from >= Len(g.out_edges)
    \/ /\ ~Contains(At(g.out_edges, from), FlowEdge(from, to, flow, cap))
       /\ (to >= Len(g.back_edges) \/ to >= Len(g.in_degree))

NetAddEdge(g, from, to, flow, cap) ==
    IF \/ ~(flow <= cap)
       \/ ~(g.nb_vertices >= Max(from, to))
       \/ from >= Len(g.out_edges)
    THEN g
    ELSE LET forward_edge  == FlowEdge(from, to, flow, cap)
             backward_edge == FlowEdge(to, from, flow, flow)
         IN  IF Contains(At(g.out_edges, from), forward_edge)
             THEN g
             ELSE LET g1 == [g EXCEPT !.out_edges[from + 1] = Append(@, forward_edge)]
                  IN  IF to >= Len(g.back_edges)
                      THEN g1
                      ELSE LET g2 == [g1 EXCEPT
                                         !.back_edges[to + 1] = Append(@, backward_edge),
                                         !.nb_edges = @ + 1]
                           IN  IF to >= Len(g.in_degree)
                               THEN g2
                               ELSE [g2 EXCEPT !.in_degree[to + 1] = @ + 1]

NetAddVertex(g) ==
    [g EXCEPT !.out_edges = Append(@, <<>>), !.back_edges = Append(@, <<>>),
              !.nb_vertices = @ + 1]

NetAddVerticesPanics(g, nb) == ~(g.nb_vertices + nb < IndexMax)

NetAddVertices(g, nb) ==
    [g EXCEPT !.out_edges = Resize(@, g.nb_vertices + nb, <<>>),
              !.back_edges = Resize(@, g.nb_vertices + nb, <<>>),
              !.in_degree = Resize(@, g.nb_vertices + nb, 0),
              !.nb_vertices = @ + nb]

\* in_degree(vertex) of a FlowNetwork reads the counter.
NetInDegree(g, vertex) == At(g.in_degree, vertex)

\* iter().find(|e| e.to() == vertex): the position of the first such edge.
FindTo(edges, vertex) ==
    CHOOSE i \in 1..Len(edges) :
        edges[i].to = vertex /\ \A j \in 1..(i - 1) : edges[j].to # vertex

------------------------------------------------------------------------------
(* The graph-construction specification: one graph object per behaviour,    *)
(* driven by its public mutators.                                           *)

Kinds == {"DiGraph", "Graph", "EdgeWeightedDiGraph", "FlowNetwork"}

\* (flow, capacity) arguments of FlowNetwork::add_edge; the last one is rejected.
FlowCapInputs == {<<0, 1>>, <<1, 1>>, <<1, 0>>}

GInit ==
    /\ kind \in Kinds
    /\ dg = DiNew
    /\ ug = UgNew
    /\ wg = WgNew
    /\ net = NetNew
    /\ added = {}
    /\ fv = NoVec
    /\ rr = NoGraph
    /\ aborted = FALSE
    /\ SearchIdle
    /\ DijkstraIdle
    /\ FlowIdle
    /\ DataIdle

DiInitCall(n) ==
    /\ kind = "DiGraph" /\ ~aborted /\ dg = DiNew /\ fv = NoVec
    /\ IF DiInitPanics(n)
       THEN aborted' = TRUE /\ dg' = dg
       ELSE aborted' = FALSE /\ dg' = DiInit(n)
    /\ rr' = NoGraph
    /\ UNCHANGED <<kind, ug, wg, net, added, fv>>
    /\ UNCHANGED ovars

DiAddVertexCall ==
    /\ kind = "DiGraph" /\ ~aborted
    /\ dg.nb_vertices < VertexCap
    /\ dg' = DiAddVertex(dg)
    /\ rr' = NoGraph /\ fv' = NoVec
    /\ UNCHANGED <<kind, ug, wg, net, added, aborted>>
    /\ UNCHANGED ovars

DiAddVerticesCall(nb) ==
    /\ kind = "DiGraph" /\ ~aborted
    /\ IF DiAddVerticesPanics(dg, nb)
       THEN aborted' = TRUE /\ dg' = dg
       ELSE aborted' = FALSE /\ dg' = DiAddVertices(dg, nb)
    /\ rr' = NoGraph /\ fv' = NoVec
    /\ UNCHANGED <<kind, ug, wg, net, added>>
    /\ UNCHANGED ovars

DiAddEdgeCall(s, t) ==
    /\ kind = "DiGraph" /\ ~aborted
    /\ dg.nb_edges < MaxEdges
    /\ dg' = DiAddEdge(dg, s, t)
    /\ aborted' = DiAddEdgePanics(dg, s, t)
    /\ added' = IF DiAddEdgePanics(dg, s, t) THEN added ELSE added \cup {<<s, t>>}
    /\ rr' = NoGraph /\ fv' = NoVec
    /\ UNCHANGED <<kind, ug, wg, net>>
    /\ UNCHANGED ovars

DiFromVecCall ==
    /\ kind = "DiGraph" /\ ~aborted /\ dg = DiNew /\ fv = NoVec
    /\ \E edges \in SeqsUpTo(Ids \X Ids, MaxVecLen) :
          LET r == DiFromVec(edges)
          IN  /\ dg' = r.g
              /\ aborted' = ~r.ok
              /\ added' = IF r.ok THEN {edges[i] : i \in 1..Len(edges)} ELSE added
              /\ fv' = IF r.ok THEN SomeVec(edges) ELSE NoVec
    /\ rr' = NoGraph
    /\ UNCHANGED <<kind, ug, wg, net>>
    /\ UNCHANGED ovars

\* let r = g.reverse().reverse();
DiReverseTwiceCall ==
    /\ kind = "DiGraph" /\ ~aborted /\ rr = NoGraph
    /\ dg.nb_vertices < IndexMax
    /\ rr' = SomeGraph(DiReverse(DiReverse(dg)))
    /\ UNCHANGED <<kind, dg, ug, wg, net, added, fv, aborted>>
    /\ UNCHANGED ovars

UgInitCall(n) ==
    /\ kind = "Graph" /\ ~aborted /\ ug = UgNew /\ fv = NoVec
    /\ IF UgInitPanics(n)
       THEN aborted' = TRUE /\ ug' = ug
       ELSE aborted' = FALSE /\ ug' = UgInit(n)
    /\ UNCHANGED <<kind, dg, wg, net, added, fv, rr>>
    /\ UNCHANGED ovars

UgAddVertexCall ==
    /\ kind = "Graph" /\ ~aborted
    /\ ug.nb_vertices < VertexCap
    /\ ug' = UgAddVertex(ug)
    /\ fv' = NoVec
    /\ UNCHANGED <<kind, dg, wg, net, added, rr, aborted>>
    /\ UNCHANGED ovars

UgAddVerticesCall(nb) ==
    /\ kind = "Graph" /\ ~aborted
    /\ IF UgAddVerticesPanics(ug, nb)
       THEN aborted' = TRUE /\ ug' = ug
       ELSE aborted' = FALSE /\ ug' = UgAddVertices(ug, nb)
    /\ fv' = NoVec
    /\ UNCHANGED <<kind, dg, wg, net, added, rr>>
    /\ UNCHANGED ovars

UgAddEdgeCall(v, w) ==
    /\ kind = "Graph" /\ ~aborted
    /\ ug.nb_edges < MaxEdges
    /\ ug' = UgAddEdge(ug, v, w)
    /\ aborted' = UgAddEdgePanics(ug, v, w)
    /\ added' = IF UgAddEdgePanics(ug, v, w) THEN added ELSE added \cup {<<v, w>>}
    /\ fv' = NoVec
    /\ UNCHANGED <<kind, dg, wg, net, rr>>
    /\ UNCHANGED ovars

UgFromVecCall ==
    /\ kind = "Graph" /\ ~aborted /\ ug = UgNew /\ fv = NoVec
    /\ \E edges \in SeqsUpTo(Ids \X Ids, MaxVecLen) :
          LET r == UgFromVec(edges)
          IN  /\ ug' = r.g
              /\ aborted' = ~r.ok
              /\ added' = IF r.ok THEN {edges[i] : i \in 1..Len(edges)} ELSE added
              /\ fv' = IF r.ok THEN SomeVec(edges) ELSE NoVec
    /\ UNCHANGED <<kind, dg, wg, net, rr>>
    /\ UNCHANGED ovars

WgInitCall(n) ==
    /\ kind = "EdgeWeightedDiGraph" /\ ~aborted /\ wg = WgNew /\ fv = NoVec
    /\ IF WgInitPanics(n)
       THEN aborted' = TRUE /\ wg' = wg
       ELSE aborted' = FALSE /\ wg' = WgInit(n)
    /\ UNCHANGED <<kind, dg, ug, net, added, fv, rr>>
    /\ UNCHANGED ovars

WgAddVertexCall ==
    /\ kind = "EdgeWeightedDiGraph" /\ ~aborted
    /\ wg.nb_vertices < VertexCap
    /\ wg' = WgAddVertex(wg)
    /\ fv' = NoVec
    /\ UNCHANGED <<kind, dg, ug, net, added, rr, aborted>>
    /\ UNCHANGED ovars

WgAddVerticesCall(nb) ==
    /\ kind = "EdgeWeightedDiGraph" /\ ~aborted
    /\ IF WgAddVerticesPanics(wg, nb)
       THEN aborted' = TRUE /\ wg' = wg
       ELSE aborted' = FALSE /\ wg' = WgAddVertices(wg, nb)
    /\ fv' = NoVec
    /\ UNCHANGED <<kind, dg, ug, net, added, rr>>
    /\ UNCHANGED ovars

WgAddEdgeCall(s, t, weight) ==
    /\ kind = "EdgeWeightedDiGraph" /\ ~aborted
    /\ wg.nb_edges < MaxEdges
    /\ wg' = WgAddEdge(wg, s, t, weight)
    /\ aborted' = WgAddEdgePanics(wg, s, t)
    /\ added' = IF WgAddEdgePanics(wg, s, t) THEN added
                ELSE added \cup {<<s, t, weight>>}
    /\ fv' = NoVec
    /\ UNCHANGED <<kind, dg, ug, net, rr>>
    /\ UNCHANGED ovars

WgFromVecCall ==
    /\ kind = "EdgeWeightedDiGraph" /\ ~aborted /\ wg = WgNew /\ fv = NoVec
    /\ \E edges \in SeqsUpTo(Ids \X Ids \X Weights, MaxVecLen) :
          LET r == WgFromVec(edges)
          IN  /\ wg' = r.g
              /\ aborted' = ~r.ok
              /\ added' = IF r.ok THEN {edges[i] : i \in 1..Len(edges)} ELSE added
              /\ fv' = IF r.ok THEN SomeVec(edges) ELSE NoVec
    /\ UNCHANGED <<kind, dg, ug, net, rr>>
    /\ UNCHANGED ovars

NetInitCall(n) ==
    /\ kind = "FlowNetwork" /\ ~aborted /\ net = NetNew
    /\ IF NetInitPanics(n)
       THEN aborted' = TRUE /\ net' = net
       ELSE aborted' = FALSE /\ net' = NetInit(n)
    /\ UNCHANGED <<kind, dg, ug, wg, added, fv, rr>>
    /\ UNCHANGED ovars

NetAddVertexCall ==
    /\ kind = "FlowNetwork" /\ ~aborted
    /\ net.nb_vertices < VertexCap
    /\ net' = NetAddVertex(net)
    /\ UNCHANGED <<kind, dg, ug, wg, added, fv, rr, aborted>>
    /\ UNCHANGED ovars

NetAddVerticesCall(nb) ==
    /\ kind = "FlowNetwork" /\ ~aborted
    /\ IF NetAddVerticesPanics(net, nb)
       THEN aborted' = TRUE /\ net' = net
       ELSE aborted' = FALSE /\ net' = NetAddVertices(net, nb)
    /\ UNCHANGED <<kind, dg, ug, wg, added, fv, rr>>
    /\ UNCHANGED ovars

NetAddEdgeCall(from, to, fc) ==
    /\ kind = "FlowNetwork" /\ ~aborted
    /\ net.nb_edges < MaxNetEdges
    /\ net' = NetAddEdge(net, from, to, fc[1], fc[2])
    /\ aborted' = NetAddEdgePanics(net, from, to, fc[1], fc[2])
    /\ UNCHANGED <<kind, dg, ug, wg, added, fv, rr>>
    /\ UNCHANGED ovars

GNext ==
    \/ \E n \in 0..IndexMax : DiInitCall(n)
    \/ DiAddVertexCall
    \/ \E nb \in 1..IndexMax : DiAddVerticesCall(nb)
    \/ \E s \in Ids, t \in Ids : DiAddEdgeCall(s, t)
    \/ DiFromVecCall
    \/ DiReverseTwiceCall
    \/ \E n \in 0..IndexMax : UgInitCall(n)
    \/ UgAddVertexCall
    \/ \E nb \in 1..IndexMax : UgAddVerticesCall(nb)
    \/ \E v \in Ids, w \in Ids : UgAddEdgeCall(v, w)
    \/ UgFromVecCall
    \/ \E n \in 0..IndexMax : WgInitCall(n)
    \/ WgAddVertexCall
    \/ \E nb \in 1..IndexMax : WgAddVerticesCall(nb)
    \/ \E s \in Ids, t \in Ids, weight \in Weights : WgAddEdgeCall(s, t, weight)
    \/ WgFromVecCall
    \/ \E n \in 0..IndexMax : NetInitCall(n)
    \/ NetAddVertexCall
    \/ \E nb \in 1..IndexMax : NetAddVerticesCall(nb)
    \/ \E from \in Ids, to \in Ids, fc \in FlowCapInputs : NetAddEdgeCall(from, to, fc)

SpecGraph == GInit /\ [][GNext]_vars

------------------------------------------------------------------------------
(* Claims about graph construction, checked under SpecGraph *)

\* The unordered endpoint pairs of a set of ordered pairs.
Unordered(pairs) == {{e[1], e[2]} : e \in pairs}

\* Claim C7: after any sequence of add_edge calls that returned, nb_edges() of a
\* DiGraph is the number of distinct ordered pairs added and nb_edges() of a
\* Graph the number of distinct unordered pairs added; add_edge of an edge that
\* is already present changes nothing (no counter, no set).
C7_NbEdgesCountsDistinctPairs ==
    ~aborted =>
        /\ kind = "DiGraph" =>
              /\ dg.nb_edges = Cardinality(added)
              /\ \A e \in added : DiAddEdge(dg, e[1], e[2]) = dg
        /\ kind = "Graph" =>
              /\ ug.nb_edges = Cardinality(Unordered(added))
              /\ \A e \in added : /\ UgAddEdge(ug, e[1], e[2]) = ug
                                  /\ UgAddEdge(ug, e[2], e[1]) = ug

\* Witness of C7: an undirected graph that was given the same edge in both
\* directions and a self-loop, and counts two edges.
C7_Witness ==
    /\ kind = "Graph" /\ ~aborted
    /\ {<<0, 1>>, <<1, 0>>, <<1, 1>>} \subseteq added
    /\ ug.nb_edges = 2

\* Sum of in_degree(v) over the vertices that have a counter.
DiInDegreeSum(g) == SumSeq([i \in 1..g.nb_vertices |-> DiInDegree(g, i - 1)])

\* Claim C8: for DiGraph, EdgeWeightedDiGraph and FlowNetwork, however the graph
\* was built (init/add_vertices/add_edge or from_vec), the sum over all vertices
\* of in_degree(v) equals nb_edges().
C8_InDegreeSumIsNbEdges ==
    ~aborted =>
        /\ kind = "DiGraph" => DiInDegreeSum(dg) = dg.nb_edges
        /\ kind = "EdgeWeightedDiGraph" => SumSeq(wg.in_degree) = wg.nb_edges
        /\ kind = "FlowNetwork" => SumSeq(net.in_degree) = net.nb_edges

\* Claim C9: for every DiGraph g built by init/add_vertices/add_edge or by
\* from_vec (so every vertex has its in-degree counter), g.reverse().reverse()
\* == g under the derived equality, which compares all four fields.
C9_ReverseTwiceIsIdentity ==
    (rr.set /\ Len(dg.in_degree) = dg.nb_vertices) => rr.g = dg

\* The largest vertex id an edge list refers to.
MaxId(edges) ==
    CHOOSE m \in Ids : /\ \E i \in 1..Len(edges) : m \in {edges[i][1], edges[i][2]}
                       /\ \A i \in 1..Len(edges) : edges[i][1] <= m /\ edges[i][2] <= m

RECURSIVE DiReplay(_, _)
DiReplay(g, edges) ==
    IF edges = <<>> THEN g
    ELSE DiReplay(DiAddEdge(g, Head(edges)[1], Head(edges)[2]), Tail(edges))

RECURSIVE WgReplay(_, _)
WgReplay(g, edges) ==
    IF edges = <<>> THEN g
    ELSE WgReplay(WgAddEdge(g, Head(edges)[1], Head(edges)[2], Head(edges)[3]),
                  Tail(edges))

\* Claim C10: DiGraph::from_vec(edges) and EdgeWeightedDiGraph::from_vec(edges)
\* produce exactly the graph obtained by init(1 + largest id in edges) followed
\* by one add_edge per tuple: same nb_vertices, out-neighbour sets, nb_edges and
\* per-vertex in-degree counters.
C10_FromVecIsInitThenAddEdges ==
    (~aborted /\ fv.set /\ fv.edges # <<>>) =>
        /\ kind = "DiGraph" =>
              dg = DiReplay(DiInit(1 + MaxId(fv.edges)), fv.edges)
        /\ kind = "EdgeWeightedDiGraph" =>
              wg = WgReplay(WgInit(1 + MaxId(fv.edges)), fv.edges)

\* Both endpoints are vertices of a graph of nb_vertices vertices.
ValidEndpoints(nb_vertices, a, b) == a < nb_vertices /\ b < nb_vertices

\* Claim C11: an add_edge call (DiGraph, Graph, EdgeWeightedDiGraph,
\* FlowNetwork) with an endpoint outside [0, nb_vertices), nb_vertices itself
\* included, aborts, and the graph it leaves is the graph it found: nothing
\* inserted into a neighbour container, no counter changed.
C11_InvalidEndpointAbortsUnchanged ==
    [][/\ \A s \in Ids, t \in Ids :
             (DiAddEdgeCall(s, t) /\ ~ValidEndpoints(dg.nb_vertices, s, t))
                 => (aborted' /\ dg' = dg)
       /\ \A v \in Ids, w \in Ids :
             (UgAddEdgeCall(v, w) /\ ~ValidEndpoints(ug.nb_vertices, v, w))
                 => (aborted' /\ ug' = ug)
       /\ \A s \in Ids, t \in Ids, weight \in Weights :
             (WgAddEdgeCall(s, t, weight) /\ ~ValidEndpoints(wg.nb_vertices, s, t))
                 => (aborted' /\ wg' = wg)
       /\ \A from \in Ids, to \in Ids, fc \in FlowCapInputs :
             (NetAddEdgeCall(from, to, fc) /\ ~ValidEndpoints(net.nb_vertices, from, to))
                 => (aborted' /\ net' = net)]_vars

\* The vertex count of the graph under construction.
GraphNbVertices ==
    CASE kind = "DiGraph" -> dg.nb_vertices
      [] kind = "Graph" -> ug.nb_vertices
      [] kind = "EdgeWeightedDiGraph" -> wg.nb_vertices
      [] OTHER -> net.nb_vertices

\* Claim C12: while no call has aborted, nb_vertices is strictly below
\* N::maximum(), so the sentinel is never a vertex; a call of add_vertex or
\* add_vertices that would reach the maximum aborts instead.
C12_NbVerticesBelowMaximum == ~aborted => GraphNbVertices < IndexMax

\* Claim C27: after any sequence of new, init, add_vertex and add_vertices on
\* a DiGraph, an EdgeWeightedDiGraph or a FlowNetwork, every per-vertex
\* container (out-edges, back-edges, in-degree) has exactly nb_vertices
\* entries, so that add_edge between valid ids finds its slots, in particular
\* those of a vertex add_vertex has just created.
C27_ContainersHoldNbVerticesEntries ==
    ~aborted =>
        /\ kind = "DiGraph" =>
               /\ Len(dg.out_edges) = dg.nb_vertices
               /\ Len(dg.in_degree) = dg.nb_vertices
        /\ kind = "EdgeWeightedDiGraph" =>
               /\ Len(wg.out_edges) = wg.nb_vertices
               /\ Len(wg.in_degree) = wg.nb_vertices
        /\ kind = "FlowNetwork" =>
               /\ Len(net.out_edges) = net.nb_vertices
               /\ Len(net.back_edges) = net.nb_vertices
               /\ Len(net.in_degree) = net.nb_vertices

\* EdgeWeightedDiGraph::in_edges: of each adjacency set, the edge that
\* find(|edge| edge.to() == vertex) meets first, collected in a HashSet. The
\* sets are HashSets, so find may meet any of the edges that match: the
\* operator is the set of the results in_edges can return.
WgInEdges(g, vertex) ==
    LET Matches(i) == {e \in g.out_edges[i] : e.to = vertex}
        sources == {i \in 1..Len(g.out_edges) : Matches(i) # {}}
    IN  {{f[i] : i \in sources} :
            f \in {h \in [sources -> UNION {Matches(i) : i \in sources}] :
                      \A i \in sources : h[i] \in Matches(i)}}

\* FlowNetwork::in_edges: of each adjacency vector, the first edge with
\* edge.to() == vertex, collected in a HashSet.
NetInEdges(g, vertex) ==
    {g.out_edges[i][FindTo(g.out_edges[i], vertex)] :
        i \in {k \in 1..Len(g.out_edges) :
                  \E j \in 1..Len(g.out_edges[k]) : g.out_edges[k][j].to = vertex}}

\* Claim C29: on an EdgeWeightedDiGraph and on a FlowNetwork, in_edges(v)
\* returns every stored edge whose destination is v, several edges from one
\* source with different weights or capacities included, so that the number
\* of edges it returns is in_degree(v).
C29_InEdgesReturnsEveryEdgeInto ==
    ~aborted =>
        /\ kind = "EdgeWeightedDiGraph" =>
               \A v \in 0..(Len(wg.in_degree) - 1) : \A res \in WgInEdges(wg, v) :
                   /\ res = {e \in UNION {wg.out_edges[i] : i \in 1..Len(wg.out_edges)} :
                                e.to = v}
                   /\ Cardinality(res) = WgInDegree(wg, v)
        /\ kind = "FlowNetwork" =>
               \A v \in 0..(Len(net.in_degree) - 1) :
                   /\ NetInEdges(net, v) =
                          {e \in UNION {{net.out_edges[i][j] : j \in 1..Len(net.out_edges[i])} :
                                           i \in 1..Len(net.out_edges)} : e.to = v}
                   /\ Cardinality(NetInEdges(net, v)) = NetInDegree(net, v)

------------------------------------------------------------------------------
(* Traversals: dfs, bfs, DepthFirstSearch, BreadthFirstSearch,             *)
(* TopologicalSort, ConnectedComponent, StrongConnectedComponent.          *)
(* The graph is fixed while a traversal runs.  The adjacency sets are      *)
(* HashSets: the order in which a loop meets the neighbours is arbitrary.  *)

\* Vertices of the traversed graphs, and the most edges they are given.
SearchN == 4

MaxSearchEdges == 4

\* The subsets of S of k or fewer elements.
RECURSIVE SubsetsUpTo(_, _)
SubsetsUpTo(S, k) ==
    IF k = 0 THEN {{}}
    ELSE LET P == SubsetsUpTo(S, k - 1) IN P \cup {T \cup {x} : T \in P, x \in S}

RECURSIVE SetToSeq(_)
SetToSeq(S) ==
    IF S = {} THEN <<>>
    ELSE LET x == CHOOSE y \in S : TRUE IN <<x>> \o SetToSeq(S \ {x})

RECURSIVE UgReplay(_, _)
UgReplay(g, edges) ==
    IF edges = <<>> THEN g
    ELSE UgReplay(UgAddEdge(g, Head(edges)[1], Head(edges)[2]), Tail(edges))

\* VertexInfo::nb_vertices and VertexInfo::vertex_edges of the traversed graph;
\* the first phase of StrongConnectedComponent::find traverses graph.reverse().
NbVertices ==
    IF kind = "Graph" THEN ug.nb_vertices
    ELSE IF kind = "EdgeWeightedDiGraph" THEN wg.nb_vertices
    ELSE dg.nb_vertices

\* Mutant of VertexEdges: the first phase of StrongConnectedComponent::find
\* traverses the graph itself.
VertexEdgesNotReversed(x) ==
    IF kind = "Graph" THEN At(ug.data, x)
    ELSE IF kind = "EdgeWeightedDiGraph" THEN {e.to : e \in At(wg.out_edges, x)}
    ELSE At(dg.out_edges, x)

VertexEdges(x) ==
    IF kind = "Graph" THEN At(ug.data, x)
    ELSE IF kind = "EdgeWeightedDiGraph" THEN {e.to : e \in At(wg.out_edges, x)}
    ELSE IF task = "scc" /\ phase = 1 THEN At(DiReverse(dg).out_edges, x)
    ELSE At(dg.out_edges, x)

\* The flags the callers give to dfs.
MutEdgeTo == ~(task \in {"topo", "ewdag"} \/ (task = "scc" /\ phase = 1))

IsComponent == task = "cc" \/ (task = "scc" /\ phase = 2)

\* Mutants of DfsSource: the flag is ignored.
DfsSourceIsComponent(is_component, component, origin) == component

DfsSourceIsOrigin(is_component, component, origin) == origin

\* dfs: let source = if is_component { component } else { origin }
DfsSource(is_component, component, origin) ==
    IF is_component THEN component ELSE origin

\* A call of dfs: its origin and what its loop over the neighbours has left.
Frame(origin) == [origin |-> origin, pending |-> VertexEdges(origin)]

\* marked: vec![false; nb_vertices]; edge_to / id: (0..nb_vertices) as N.
InitMarked(nb_vertices) == [i \in 1..nb_vertices |-> FALSE]

InitEdgeTo(nb_vertices) == [i \in 1..nb_vertices |-> i - 1]

\* Every order in which a loop can meet the elements of a HashSet.
Orders(S) ==
    {o \in [1..Cardinality(S) -> S] : \A i, j \in 1..Cardinality(S) : o[i] = o[j] => i = j}

\* VecDeque::pop_front
PopFront(q) == [node |-> Head(q), rest |-> Tail(q)]

\* Mutant of BfsVisit: edge_to is written for marked neighbours too.
RECURSIVE BfsVisitLastWins(_, _, _)
BfsVisitLastWins(st, node, order) ==
    IF order = <<>> THEN st
    ELSE LET v == Head(order)
             st1 == [queue |-> IF ~At(st.marked, v) THEN Append(st.queue, v)
                               ELSE st.queue,
                     marked |-> [st.marked EXCEPT ![v + 1] = TRUE],
                     edge_to |-> [st.edge_to EXCEPT ![v + 1] = node]]
         IN  BfsVisitLastWins(st1, node, Tail(order))

\* bfs: the loop over the neighbours of the popped node, met in this order.
RECURSIVE BfsVisit(_, _, _)
BfsVisit(st, node, order) ==
    IF order = <<>> THEN st
    ELSE LET v == Head(order)
             st1 == IF ~At(st.marked, v)
                    THEN [queue |-> Append(st.queue, v),
                          marked |-> [st.marked EXCEPT ![v + 1] = TRUE],
                          edge_to |-> [st.edge_to EXCEPT ![v + 1] = node]]
                    ELSE st
         IN  BfsVisit(st1, node, Tail(order))

Reverse(v) == [i \in 1..Len(v) |-> v[Len(v) + 1 - i]]

\* Mutant of Order: the vector is read front to back.
OrderNotReversed(reverse_postorder) == reverse_postorder

\* TopologicalSort::order: reverse_postorder.iter().rev()
Order(reverse_postorder) == Reverse(reverse_postorder)

\* path_to of DepthFirstSearch and BreadthFirstSearch: None when the target is
\* not marked, else the walk from the target along edge_to until self.v.  The
\* loop of the code has no bound; the walk here stops after fuel steps, which
\* shows as a path that does not end in self.v.
RECURSIVE PathWalk(_, _, _, _)
PathWalk(et, v, x, fuel) ==
    IF x = v THEN <<v>>
    ELSE IF fuel = 0 THEN <<x>>
    ELSE <<x>> \o PathWalk(et, v, At(et, x), fuel - 1)

PathTo(mk, et, v, target) ==
    IF ~At(mk, target)
    THEN [some |-> FALSE, path |-> <<>>]
    ELSE [some |-> TRUE, path |-> PathWalk(et, v, target, Len(et))]

\* connected of ConnectedComponent and StrongConnectedComponent.
Connected(mk, id, v, w) ==
    IF ~At(mk, v) \/ ~At(mk, w)
    THEN [some |-> FALSE, value |-> FALSE]
    ELSE [some |-> TRUE, value |-> At(id, v) = At(id, w)]

\* The graphs a traversal is given: SearchN or fewer vertices, MaxSearchEdges or
\* fewer edges, built by init and add_edge.
SearchEdgeSets(n) == SubsetsUpTo((0..(n - 1)) \X (0..(n - 1)), MaxSearchEdges)

\* The graph of the example of depth_first_order:
\* DiGraph::from_vec(vec![(1, 0), (0, 2), (3, 4), (2, 3)]).
TopoDocVertices == 5

TopoDocEdges == {<<1, 0>>, <<0, 2>>, <<3, 4>>, <<2, 3>>}

SInit ==
    /\ task \in {"paths", "topo", "cc", "scc"}
    /\ kind \in {"DiGraph", "Graph"}
    /\ task = "cc" => kind = "Graph"
    /\ task \in {"topo", "scc"} => kind = "DiGraph"
    /\ \E m \in (1..SearchN) \cup (IF task = "topo" THEN {0} ELSE {}) :
       LET n == IF m = 0 THEN TopoDocVertices ELSE m
       IN
          /\ \E E \in IF m = 0 THEN {TopoDocEdges} ELSE SearchEdgeSets(n) :
                IF kind = "Graph"
                THEN ug = UgReplay(UgInit(n), SetToSeq(E)) /\ dg = DiNew
                ELSE dg = DiReplay(DiInit(n), SetToSeq(E)) /\ ug = UgNew
          /\ v0 \in IF task = "paths" THEN 0..(n - 1) ELSE {0}
          \* DepthFirstSearch::init / ConnectedComponent::init;
          \* TopologicalSort::init for "topo" and for the first phase of "scc"
          /\ marked = InitMarked(n)
          /\ edge_to = IF task \in {"topo", "scc"} THEN <<>> ELSE InitEdgeTo(n)
          \* BreadthFirstSearch::init / StrongConnectedComponent::init
          /\ saved = IF task \in {"paths", "scc"}
                     THEN [marked |-> InitMarked(n), edge_to |-> InitEdgeTo(n)]
                     ELSE [marked |-> <<>>, edge_to |-> <<>>]
    /\ wg = WgNew /\ net = NetNew /\ added = {} /\ fv = NoVec /\ rr = NoGraph
    /\ aborted = FALSE
    /\ phase = 1
    /\ pc = IF task = "paths" THEN "find_paths" ELSE "loop"
    /\ stack = <<>> /\ queue = <<>> /\ loopv = 0 /\ nb_cc = 0
    /\ DijkstraIdle
    /\ FlowIdle
    /\ DataIdle

\* DepthFirstSearch::find_paths: dfs(graph, marked, edge_to, v, v, true, false);
\* dfs marks its origin on entry.
DfsFindPaths ==
    /\ task = "paths" /\ phase = 1 /\ pc = "find_paths"
    /\ marked' = [marked EXCEPT ![v0 + 1] = TRUE]
    /\ stack' = <<Frame(v0)>>
    /\ pc' = "dfs"
    /\ UNCHANGED <<task, phase, v0, edge_to, queue, loopv, nb_cc, saved, nonsearch>>

\* dfs: the loop `for u in adjacent_vertices` of the innermost call meets u;
\* an unmarked u is entered (and marked on entry).
DfsNext ==
    /\ pc = "dfs"
    /\ stack[Len(stack)].pending # {}
    /\ \E u \in stack[Len(stack)].pending :
          LET rest == [stack EXCEPT ![Len(stack)].pending = @ \ {u}]
          IN  IF ~At(marked, u)
              THEN /\ marked' = [marked EXCEPT ![u + 1] = TRUE]
                   /\ stack' = Append(rest, Frame(u))
              ELSE /\ stack' = rest
                   /\ marked' = marked
    /\ UNCHANGED <<task, phase, pc, v0, edge_to, queue, loopv, nb_cc, saved, nonsearch>>

\* dfs: the innermost call has met all its neighbours and returns.  With
\* mut_edge_to the caller then writes edge_to[neighbor] = source; without it
\* the call itself ends with edge_to.push(origin).
DfsReturn ==
    /\ pc = "dfs"
    /\ stack[Len(stack)].pending = {}
    /\ LET top == stack[Len(stack)]
       IN  edge_to' =
             IF ~MutEdgeTo THEN Append(edge_to, top.origin)
             ELSE IF Len(stack) = 1 THEN edge_to
             ELSE [edge_to EXCEPT ![top.origin + 1] =
                      DfsSource(IsComponent, stack[1].origin,
                                stack[Len(stack) - 1].origin)]
    /\ stack' = SubSeq(stack, 1, Len(stack) - 1)
    /\ pc' = IF Len(stack) = 1 THEN "returned" ELSE "dfs"
    /\ UNCHANGED <<task, phase, v0, marked, queue, loopv, nb_cc, saved, nonsearch>>

\* BreadthFirstSearch::find_paths, after the depth-first search has returned:
\* bfs pushes the origin and marks it.
BfsFindPaths ==
    /\ task = "paths" /\ phase = 1 /\ pc = "returned"
    /\ phase' = 2
    /\ saved' = [marked |-> marked, edge_to |-> edge_to]
    /\ marked' = [saved.marked EXCEPT ![v0 + 1] = TRUE]
    /\ edge_to' = saved.edge_to
    /\ queue' = <<v0>>
    /\ pc' = "bfs"
    /\ UNCHANGED <<task, v0, stack, loopv, nb_cc, nonsearch>>

\* bfs: one turn of `while let Some(node) = queue.pop_front()`.
BfsPop ==
    /\ pc = "bfs" /\ queue # <<>>
    /\ LET p == PopFront(queue)
       IN  \E order \in Orders(VertexEdges(p.node)) :
              LET st == BfsVisit([queue |-> p.rest, marked |-> marked,
                                  edge_to |-> edge_to], p.node, order)
              IN  /\ queue' = st.queue
                  /\ marked' = st.marked
                  /\ edge_to' = st.edge_to
    /\ UNCHANGED <<task, phase, pc, v0, stack, loopv, nb_cc, saved, nonsearch>>

\* bfs: the queue is empty, the loop and find_paths end.
BfsEnd ==
    /\ pc = "bfs" /\ queue = <<>>
    /\ pc' = "done"
    /\ UNCHANGED <<task, phase, v0, marked, edge_to, stack, queue, loopv, nb_cc,
                   saved, nonsearch>>

\* Mutant of LoopVertex: the outer loop goes from the last vertex down.
LoopVertexDescending == NbVertices - 1 - loopv

\* The vertex the outer loop `for v in 0..nb` is at: N::to_vertex(v), or
\* order_second_dfs[nb - 1 - v] in the second phase of
\* StrongConnectedComponent::find (saved.edge_to is topo.reverse_postorder()).
LoopVertex ==
    IF task = "scc" /\ phase = 2
    THEN At(saved.edge_to, NbVertices - 1 - loopv)
    ELSE loopv

\* depth_first_order / find: the vertex of the loop is not marked, dfs is
\* called with it as origin and component.
LoopVisit ==
    /\ pc = "loop" /\ loopv < NbVertices
    /\ ~At(marked, LoopVertex)
    /\ marked' = [marked EXCEPT ![LoopVertex + 1] = TRUE]
    /\ stack' = <<Frame(LoopVertex)>>
    /\ pc' = "dfs"
    /\ UNCHANGED <<task, phase, v0, edge_to, queue, loopv, nb_cc, saved, nonsearch>>

\* depth_first_order / find: the vertex of the loop is already marked.
LoopSkip ==
    /\ pc = "loop" /\ loopv < NbVertices
    /\ At(marked, LoopVertex)
    /\ loopv' = loopv + 1
    /\ UNCHANGED <<task, phase, pc, v0, marked, edge_to, stack, queue, nb_cc,
                   saved, nonsearch>>

\* depth_first_order / find: dfs has returned; find counts one more component.
LoopReturn ==
    /\ task # "paths" /\ pc = "returned"
    /\ nb_cc' = IF IsComponent THEN nb_cc + 1 ELSE nb_cc
    /\ loopv' = loopv + 1
    /\ pc' = "loop"
    /\ UNCHANGED <<task, phase, v0, marked, edge_to, stack, queue, saved, nonsearch>>

\* StrongConnectedComponent::find: the sort of graph.reverse() is over,
\* order_second_dfs = topo.reverse_postorder(), and the loop over it starts on
\* the marked and id of the structure itself.
SccSecondPhase ==
    /\ task = "scc" /\ phase = 1 /\ pc = "loop" /\ loopv = NbVertices
    /\ phase' = 2
    /\ saved' = [marked |-> marked, edge_to |-> edge_to]
    /\ marked' = saved.marked
    /\ edge_to' = saved.edge_to
    /\ loopv' = 0
    /\ UNCHANGED <<task, pc, v0, stack, queue, nb_cc, nonsearch>>

\* depth_first_order is called a second time on the same structure and graph;
\* saved keeps what the first call left.
TopoSecondCall ==
    /\ task = "topo" /\ phase = 1 /\ pc = "done"
    /\ phase' = 2
    /\ saved' = [marked |-> marked, edge_to |-> edge_to]
    /\ loopv' = 0
    /\ pc' = "loop"
    /\ UNCHANGED <<task, v0, marked, edge_to, stack, queue, nb_cc, nonsearch>>

\* depth_first_order / find: the loop is over (find sets ran = true).
LoopEnd ==
    /\ pc = "loop" /\ loopv = NbVertices
    /\ ~(task = "scc" /\ phase = 1)
    /\ pc' = IF task = "ewdag" THEN "sorted" ELSE "done"
    /\ UNCHANGED <<task, phase, v0, marked, edge_to, stack, queue, loopv, nb_cc,
                   saved, nonsearch>>

SNext ==
    \/ DfsFindPaths
    \/ DfsNext
    \/ DfsReturn
    \/ BfsFindPaths
    \/ BfsPop
    \/ BfsEnd
    \/ LoopVisit
    \/ LoopSkip
    \/ LoopReturn
    \/ SccSecondPhase
    \/ TopoSecondCall
    \/ LoopEnd

SpecSearch == SInit /\ [][SNext]_vars

------------------------------------------------------------------------------
(* Properties of the traversals, stated over the edges of the graph itself. *)

SearchVertices == 0..(NbVertices - 1)

\* The out-neighbours of x in the graph the traversal was given.
GraphEdges(x) ==
    IF kind = "Graph" THEN At(ug.data, x)
    ELSE IF kind = "EdgeWeightedDiGraph" THEN {e.to : e \in At(wg.out_edges, x)}
    ELSE At(dg.out_edges, x)

\* The vertices that directed paths of k or fewer edges reach from s.
RECURSIVE Within(_, _)
Within(s, k) ==
    IF k = 0 THEN {s}
    ELSE LET W == Within(s, k - 1) IN W \cup UNION {GraphEdges(x) : x \in W}

Reach(s) == Within(s, NbVertices)

\* The fewest edges of a directed path from s to a reachable t.
Dist(s, t) ==
    CHOOSE k \in 0..NbVertices :
        t \in Within(s, k) /\ \A j \in 0..(k - 1) : t \notin Within(s, j)

Acyclic == \A v \in SearchVertices : \A w \in GraphEdges(v) : v \notin Reach(w)

\* p starts with t, ends with s, repeats no vertex, and each vertex of p is an
\* out-neighbour of the vertex that follows it.
TracesBack(p, s, t) ==
    /\ Len(p) >= 1 /\ p[1] = t /\ p[Len(p)] = s
    /\ \A i, j \in 1..Len(p) : p[i] = p[j] => i = j
    /\ \A i \in 1..(Len(p) - 1) : p[i] \in GraphEdges(p[i + 1])

\* What path_to returns after both searches: the depth-first structure is the
\* saved one, the breadth-first structure the current one.
DfsPathTo(t) == PathTo(saved.marked, saved.edge_to, v0, t)

BfsPathTo(t) == PathTo(marked, edge_to, v0, t)

C4_TopologicalOrder ==
    (task = "topo" /\ pc = "done" /\ Acyclic) =>
        LET o == Order(edge_to)
        IN  /\ Len(o) = NbVertices
            /\ \A v \in SearchVertices : \E i \in 1..Len(o) : o[i] = v
            /\ \A i, j \in 1..Len(o) : o[j] \in GraphEdges(o[i]) => i < j

\* Witness of C4: a sorted acyclic graph with an edge from a larger to a
\* smaller vertex and a path of two edges.
C4_Witness ==
    /\ task = "topo" /\ pc = "done" /\ Acyclic
    /\ \E u \in SearchVertices : \E v \in GraphEdges(u) :
          u > v /\ GraphEdges(v) # {}

\* The root of the depth-first tree that holds x when the roots are taken in
\* increasing index: the least vertex that reaches x.
TreeRoot(x) ==
    CHOOSE r \in SearchVertices :
        x \in Reach(r) /\ \A q \in SearchVertices : x \in Reach(q) => r <= q

\* The index of x in the vector o.
PositionIn(o, x) == CHOOSE i \in 1..Len(o) : o[i] = x

C5_PathToTracesBack ==
    (task = "paths" /\ pc = "done") =>
        \A t \in SearchVertices :
            IF t \in Reach(v0)
            THEN /\ DfsPathTo(t).some /\ TracesBack(DfsPathTo(t).path, v0, t)
                 /\ BfsPathTo(t).some /\ TracesBack(BfsPathTo(t).path, v0, t)
            ELSE ~DfsPathTo(t).some /\ ~BfsPathTo(t).some

\* Witness of C5: both searches are over, one vertex has a depth-first path of
\* two edges and another vertex has no path.
C5_Witness ==
    /\ task = "paths" /\ pc = "done"
    /\ \E t \in SearchVertices : Len(DfsPathTo(t).path) = 3
    /\ \E t \in SearchVertices : ~BfsPathTo(t).some

\* Claim C6: the path BreadthFirstSearch::path_to(v) returns for a reachable v
\* has the fewest edges of all directed paths from s to v, and is never longer
\* than the path DepthFirstSearch::path_to(v) returns.
C6_BfsPathIsShortest ==
    (task = "paths" /\ pc = "done") =>
        \A t \in Reach(v0) :
            /\ BfsPathTo(t).some
            /\ Len(BfsPathTo(t).path) = Dist(v0, t) + 1
            /\ Len(BfsPathTo(t).path) <= Len(DfsPathTo(t).path)

\* Witness of C6: for one target the breadth-first path has one edge and the
\* depth-first path two.
C6_Witness ==
    /\ task = "paths" /\ pc = "done"
    /\ \E t \in SearchVertices :
          /\ BfsPathTo(t).some /\ DfsPathTo(t).some
          /\ Len(BfsPathTo(t).path) = 2 /\ Len(DfsPathTo(t).path) = 3

\* The components of the graph: the classes of vertices that reach each other
\* (in an undirected graph, the vertices joined by a path).
Components == {{w \in Reach(v) : v \in Reach(w)} : v \in SearchVertices}

------------------------------------------------------------------------------
(* dijkstra, on an edge-weighted directed graph seen through the traits    *)
(* VertexInfo and EdgeInfo.                                                *)

\* The vertex counts, the most edges and the weights of the graphs dijkstra is
\* given.
DijkstraSizes == {1, 2, 3, 4}

MaxDijkstraEdges == 3

DijkstraWeights == {0, 1, 2}

\* W::maximum() and N::maximum() for u8 weights and u8 identifiers: what
\* dist_to and edge_to are filled with before the call.
WeightMax == 255

IndexSentinel == 255

\* W::add for u8 weights: the sum a build without overflow checks computes,
\* and whether a build with overflow checks panics instead.
WeightAdd(a, b) == (a + b) % (WeightMax + 1)

WeightAddOverflows(a, b) == a + b > WeightMax

\* EdgeInfo::out_edges: the (neighbour, weight) pairs of the edges leaving vertex.
EdgeInfoOutEdges(g, vertex) == {<<e.to, e.weight>> : e \in At(g.out_edges, vertex)}

CurrentNode(vertex, distance) == [vertex |-> vertex, distance |-> distance]

\* Ord for CurrentNode, a > b: the distances compared the other way round,
\* then the vertices.
NodeGreater(a, b) ==
    \/ a.distance < b.distance
    \/ a.distance = b.distance /\ a.vertex > b.vertex

\* BinaryHeap::pop returns the greatest node.
HeapTop(h) ==
    CHOOSE a \in BagToSet(h) : \A b \in BagToSet(h) : a = b \/ NodeGreater(a, b)

\* Mutant of Relax: the distance of the origin is left out.
RelaxEdgeOnly(st, origin, destination, dist) ==
    [st EXCEPT !.dist_to[destination + 1] = dist,
               !.edge_to[destination + 1] = origin]

\* relax
Relax(st, origin, destination, dist) ==
    [st EXCEPT !.dist_to[destination + 1] = WeightAdd(At(st.dist_to, origin), dist),
               !.edge_to[destination + 1] = origin]

\* dijkstra: the loop `for edge in neighbors` of the popped node, the edges
\* met in this order.
RECURSIVE DijkstraVisit(_, _, _, _)
DijkstraVisit(st, vertex, distance, edges) ==
    IF edges = <<>> THEN st
    ELSE LET neighbor == Head(edges)[1]
             dist == Head(edges)[2]
             node == CurrentNode(neighbor, distance + dist)
             st1 == IF At(st.dist_to, neighbor) > node.distance
                    THEN [Relax(st, vertex, neighbor, dist) EXCEPT
                             !.priority_queue = @ (+) SetToBag({node})]
                    ELSE st
         IN  DijkstraVisit(st1, vertex, distance, Tail(edges))

DijkstraEdgeSets(n) ==
    SubsetsUpTo((0..(n - 1)) \X (0..(n - 1)) \X DijkstraWeights, MaxDijkstraEdges)

\* The caller's state before dijkstra: a graph built by init and add_edge,
\* dist_to and edge_to of nb_vertices sentinels.
DInit ==
    /\ task = "dijkstra" /\ kind = "EdgeWeightedDiGraph"
    /\ \E n \in DijkstraSizes :
          /\ \E E \in DijkstraEdgeSets(n) : wg = WgReplay(WgInit(n), SetToSeq(E))
          /\ dj_source \in 0..(n - 1)
          /\ dist_to = [i \in 1..n |-> WeightMax]
          /\ edge_to = [i \in 1..n |-> IndexSentinel]
    /\ priority_queue = EmptyBag
    /\ overflow_checks = TRUE
    /\ pc = "dijkstra"
    /\ dg = DiNew /\ ug = UgNew /\ net = NetNew /\ added = {} /\ fv = NoVec
    /\ rr = NoGraph /\ aborted = FALSE
    /\ phase = 1 /\ v0 = 0 /\ marked = <<>> /\ stack = <<>> /\ queue = <<>>
    /\ loopv = 0 /\ nb_cc = 0 /\ saved = [marked |-> <<>>, edge_to |-> <<>>]
    /\ FlowIdle
    /\ DataIdle

\* dijkstra up to its loop: the two assert_eq!, dist_to[source] = zero, the
\* push of the source.
DijkstraStart ==
    /\ task = "dijkstra" /\ pc = "dijkstra"
    /\ IF Len(edge_to) # Len(dist_to) \/ wg.nb_vertices # Len(edge_to)
       THEN /\ aborted' = TRUE /\ pc' = "done"
            /\ UNCHANGED <<dist_to, priority_queue>>
       ELSE /\ dist_to' = [dist_to EXCEPT ![dj_source + 1] = 0]
            /\ priority_queue' = SetToBag({CurrentNode(dj_source, 0)})
            /\ pc' = "heap"
            /\ aborted' = aborted
    /\ UNCHANGED <<kind, dg, ug, wg, net, added, fv, rr>>
    /\ UNCHANGED <<task, phase, v0, marked, edge_to, stack, queue, loopv, nb_cc,
                   saved, dj_source, overflow_checks, fvars, dvars>>

\* dijkstra: one turn of `while let Some(..) = priority_queue.pop()`.
DijkstraPop ==
    /\ task = "dijkstra" /\ pc = "heap" /\ priority_queue # EmptyBag
    /\ LET top == HeapTop(priority_queue)
           rest == priority_queue (-) SetToBag({top})
       IN  \E edges \in Orders(EdgeInfoOutEdges(wg, top.vertex)) :
              LET st == DijkstraVisit([dist_to |-> dist_to, edge_to |-> edge_to,
                                       priority_queue |-> rest],
                                      top.vertex, top.distance, edges)
              IN  /\ dist_to' = st.dist_to
                  /\ edge_to' = st.edge_to
                  /\ priority_queue' = st.priority_queue
    /\ UNCHANGED <<task, phase, pc, v0, marked, stack, queue, loopv, nb_cc, saved,
                   dj_source, overflow_checks, gvars, fvars, dvars>>

\* dijkstra: the heap is empty, the function returns.
DijkstraEnd ==
    /\ task = "dijkstra" /\ pc = "heap" /\ priority_queue = EmptyBag
    /\ pc' = "done"
    /\ UNCHANGED <<task, phase, v0, marked, edge_to, stack, queue, loopv, nb_cc,
                   saved, pvars, gvars, fvars, dvars>>

DNext ==
    \/ DijkstraStart
    \/ DijkstraPop
    \/ DijkstraEnd

SpecDijkstra == DInit /\ [][DNext]_vars

\* Every edge of the weighted graph.
WgEdges == UNION {wg.out_edges[i] : i \in 1..Len(wg.out_edges)}

SetMin(S) == CHOOSE x \in S : \A y \in S : x <= y

\* MinWeights(s, k)[v + 1]: the least total weight of a directed path of k or
\* fewer edges from s to v, WeightMax when there is none.
RECURSIVE MinWeights(_, _)
MinWeights(s, k) ==
    IF k = 0 THEN [i \in 1..wg.nb_vertices |-> IF i - 1 = s THEN 0 ELSE WeightMax]
    ELSE LET d == MinWeights(s, k - 1)
         IN  [i \in 1..wg.nb_vertices |->
                 SetMin({d[i]} \cup {d[e.from + 1] + e.weight :
                                       e \in {x \in WgEdges : x.to = i - 1 /\
                                                d[x.from + 1] < WeightMax}})]

\* Claim C3: with non-negative weights, after dijkstra from s on dist_to and
\* edge_to filled with the maximum, dist_to[v] is the least weight of a path
\* from s to v when v is reachable and still the maximum when it is not, and
\* the walk along edge_to from a reachable v ends in s, each step an edge whose
\* weight is the difference of the two distances (so the walk weighs dist_to[v]).
C3_DijkstraShortestPaths ==
    (task = "dijkstra" /\ pc = "done" /\ ~aborted) =>
        /\ dist_to = MinWeights(dj_source, wg.nb_vertices)
        /\ At(dist_to, dj_source) = 0
        /\ \A v \in 0..(wg.nb_vertices - 1) :
              At(dist_to, v) < WeightMax =>
                  LET p == PathWalk(edge_to, dj_source, v, wg.nb_vertices)
                  IN  /\ p[Len(p)] = dj_source
                      /\ \A i \in 1..(Len(p) - 1) :
                            \E e \in At(wg.out_edges, p[i + 1]) :
                                /\ e.to = p[i]
                                /\ At(dist_to, p[i + 1]) + e.weight = At(dist_to, p[i])

\* Witness of C3: a vertex whose distance 1 goes through another vertex
\* although a heavier edge leads to it from the source, and a vertex that is
\* not reached.
C3_Witness ==
    /\ task = "dijkstra" /\ pc = "done" /\ ~aborted
    /\ \E v \in 0..(wg.nb_vertices - 1) :
          /\ At(dist_to, v) = 1
          /\ At(edge_to, v) \notin {dj_source, IndexSentinel}
          /\ WeightedDiEdge(dj_source, v, 2) \in At(wg.out_edges, dj_source)
    /\ \E v \in 0..(wg.nb_vertices - 1) :
          At(dist_to, v) = WeightMax /\ At(edge_to, v) = IndexSentinel

------------------------------------------------------------------------------
(* shortest_path_ewdag on an acyclic edge-weighted directed graph, and     *)
(* dijkstra called afterwards on the same graph and source with arrays     *)
(* initialised the same way.                                               *)

\* The most edges of the graphs shortest_path_ewdag is given.
MaxEwdagEdges == 2

\* shortest_path_ewdag: the loop `for edge in neighbors` of vertex, the edges
\* met in this order.  dist_to[vertex] + dist is computed before the
\* comparison.
RECURSIVE EwdagVisit(_, _, _)
EwdagVisit(st, vertex, edges) ==
    IF edges = <<>> \/ st.aborted THEN st
    ELSE LET neighbor == Head(edges)[1]
             dist == Head(edges)[2]
             st1 == IF overflow_checks /\ WeightAddOverflows(At(st.dist_to, vertex), dist)
                    THEN [st EXCEPT !.aborted = TRUE]
                    ELSE IF At(st.dist_to, neighbor) >
                                WeightAdd(At(st.dist_to, vertex), dist)
                    THEN Relax(st, vertex, neighbor, dist)
                    ELSE st
         IN  EwdagVisit(st1, vertex, Tail(edges))

\* The caller's state before shortest_path_ewdag: an acyclic graph built by
\* init and add_edge, dist_to and edge_to of nb_vertices sentinels.
EInit ==
    /\ task = "ewdag" /\ kind = "EdgeWeightedDiGraph"
    /\ dg = DiNew /\ ug = UgNew /\ net = NetNew /\ added = {} /\ fv = NoVec
    /\ rr = NoGraph /\ aborted = FALSE
    /\ \E n \in DijkstraSizes :
          /\ \E E \in SubsetsUpTo((0..(n - 1)) \X (0..(n - 1)) \X DijkstraWeights,
                                 MaxEwdagEdges) :
                wg = WgReplay(WgInit(n), SetToSeq(E))
          /\ dj_source \in 0..(n - 1)
          /\ dist_to = [i \in 1..n |-> WeightMax]
          /\ edge_to = [i \in 1..n |-> IndexSentinel]
    /\ Acyclic
    /\ overflow_checks \in BOOLEAN
    /\ priority_queue = EmptyBag
    /\ pc = "ewdag"
    /\ phase = 1 /\ v0 = 0 /\ marked = <<>> /\ stack = <<>> /\ queue = <<>>
    /\ loopv = 0 /\ nb_cc = 0 /\ saved = [marked |-> <<>>, edge_to |-> <<>>]
    /\ FlowIdle
    /\ DataIdle

\* shortest_path_ewdag up to depth_first_order: the two assert_eq!, then
\* TopologicalSort::init; the caller's edge_to is set aside while edge_to is
\* the reverse_postorder of the sort.
EwdagStart ==
    /\ task = "ewdag" /\ pc = "ewdag"
    /\ IF Len(edge_to) # Len(dist_to) \/ wg.nb_vertices # Len(edge_to)
       THEN /\ aborted' = TRUE /\ pc' = "done"
            /\ UNCHANGED <<marked, edge_to, saved>>
       ELSE /\ saved' = [marked |-> <<>>, edge_to |-> edge_to]
            /\ edge_to' = <<>>
            /\ marked' = [i \in 1..wg.nb_vertices |-> FALSE]
            /\ pc' = "loop"
            /\ aborted' = aborted
    /\ UNCHANGED <<kind, dg, ug, wg, net, added, fv, rr>>
    /\ UNCHANGED <<task, phase, v0, stack, queue, loopv, nb_cc, pvars, fvars, dvars>>

\* shortest_path_ewdag: the sort is over, dist_to[source] = zero and
\* flag_source = false (phase 2; phase 3 is flag_source = true); saved.edge_to
\* is now the reverse_postorder.
EwdagSorted ==
    /\ task = "ewdag" /\ pc = "sorted"
    /\ dist_to' = [dist_to EXCEPT ![dj_source + 1] = 0]
    /\ saved' = [marked |-> marked, edge_to |-> edge_to]
    /\ edge_to' = saved.edge_to
    /\ phase' = 2
    /\ loopv' = 0
    /\ pc' = "order"
    /\ UNCHANGED <<task, v0, marked, stack, queue, nb_cc, dj_source,
                   priority_queue, overflow_checks, gvars, fvars, dvars>>

\* shortest_path_ewdag: one turn of `for vertex in topo.order()`.
EwdagVertex ==
    /\ task = "ewdag" /\ pc = "order" /\ loopv < Len(saved.edge_to)
    /\ LET vertex == At(Order(saved.edge_to), loopv)
           flag_source == phase = 3 \/ vertex = dj_source
       IN  /\ phase' = IF flag_source THEN 3 ELSE 2
           /\ IF flag_source
              THEN \E edges \in Orders(EdgeInfoOutEdges(wg, vertex)) :
                      LET st == EwdagVisit([dist_to |-> dist_to, edge_to |-> edge_to,
                                            aborted |-> FALSE], vertex, edges)
                      IN  /\ dist_to' = st.dist_to
                          /\ edge_to' = st.edge_to
                          /\ aborted' = st.aborted
                          /\ pc' = IF st.aborted THEN "done" ELSE "order"
              ELSE UNCHANGED <<dist_to, edge_to, aborted, pc>>
    /\ loopv' = loopv + 1
    /\ UNCHANGED <<kind, dg, ug, wg, net, added, fv, rr>>
    /\ UNCHANGED <<task, v0, marked, stack, queue, nb_cc, saved, dj_source,
                   priority_queue, overflow_checks, fvars, dvars>>

\* shortest_path_ewdag: the loop is over, the function returns.
EwdagEnd ==
    /\ task = "ewdag" /\ pc = "order" /\ loopv = Len(saved.edge_to)
    /\ pc' = "ewdag_done"
    /\ UNCHANGED <<task, phase, v0, marked, edge_to, stack, queue, loopv, nb_cc,
                   saved, pvars, gvars, fvars, dvars>>

\* The caller keeps what shortest_path_ewdag computed (saved) and calls
\* dijkstra on the same graph and source with new arrays of sentinels.
DijkstraAfterEwdag ==
    /\ task = "ewdag" /\ pc = "ewdag_done"
    /\ saved' = [marked |-> marked, edge_to |-> edge_to, dist_to |-> dist_to]
    /\ dist_to' = [i \in 1..wg.nb_vertices |-> WeightMax]
    /\ edge_to' = [i \in 1..wg.nb_vertices |-> IndexSentinel]
    /\ task' = "dijkstra"
    /\ pc' = "dijkstra"
    /\ UNCHANGED <<phase, v0, marked, stack, queue, loopv, nb_cc, dj_source,
                   priority_queue, overflow_checks, gvars, fvars, dvars>>

ENext ==
    \/ EwdagStart
    \/ LoopVisit
    \/ LoopSkip
    \/ LoopReturn
    \/ DfsNext
    \/ DfsReturn
    \/ LoopEnd
    \/ EwdagSorted
    \/ EwdagVertex
    \/ EwdagEnd
    \/ DijkstraAfterEwdag
    \/ DijkstraStart
    \/ DijkstraPop
    \/ DijkstraEnd

SpecEwdag == EInit /\ [][ENext]_vars

\* Claim C13: on an acyclic graph with non-negative weights, dijkstra and
\* shortest_path_ewdag, called with the same source on arrays initialised the
\* same way, end with the same dist_to[v] for every vertex v.
C13_EwdagAgreesWithDijkstra ==
    (task = "dijkstra" /\ phase > 1 /\ pc = "done" /\ ~aborted) =>
        dist_to = saved.dist_to

\* Claim C14: after shortest_path_ewdag on an acyclic graph, every vertex the
\* source does not reach still has the maximum in dist_to and the sentinel in
\* edge_to, wherever it stands in the topological order: no distance is
\* derived from a vertex whose own distance is the maximum.
C14_UnreachableKeepSentinels ==
    (task = "ewdag" /\ pc = "ewdag_done") =>
        \A v \in 0..(wg.nb_vertices - 1) :
            v \notin Reach(dj_source) =>
                At(dist_to, v) = WeightMax /\ At(edge_to, v) = IndexSentinel

------------------------------------------------------------------------------
(* FordFulkerson: has_augmenting_path and find_flows on a FlowNetwork.     *)

RECURSIVE NetReplay(_, _)
NetReplay(g, edges) ==
    IF edges = <<>> THEN g
    ELSE NetReplay(NetAddEdge(g, Head(edges)[1], Head(edges)[2], Head(edges)[3],
                              Head(edges)[4]), Tail(edges))

\* FlowEdge::residual_capacity
ResidualCapacity(edge) == edge.capacity - edge.flow

\* FlowEdge::add_residual_flow_to; the last case is its panic.
AddResidualFlowTo(edge, vertex, delta) ==
    IF vertex = edge.from THEN [edge EXCEPT !.flow = @ - delta]
    ELSE IF vertex = edge.to THEN [edge EXCEPT !.flow = @ + delta]
    ELSE edge

\* has_augmenting_path: the loop `for edge in network.out_edges(&vertex)`;
\* st.found is the `return true`.
RECURSIVE AugmentingScan(_, _, _, _)
AugmentingScan(st, vertex, edges, dest) ==
    IF edges = <<>> \/ st.found THEN st
    ELSE LET edge == Head(edges)
             n_v == edge.to
         IN  IF ~At(st.marked, n_v) /\ ResidualCapacity(edge) > 0
             THEN LET st1 == [st EXCEPT !.marked[n_v + 1] = TRUE,
                                        !.edge_to[n_v + 1] = Some(vertex)]
                  IN  IF n_v = dest
                      THEN [st1 EXCEPT !.found = TRUE]
                      ELSE AugmentingScan([st1 EXCEPT !.queue = Append(@, n_v)],
                                          vertex, Tail(edges), dest)
             ELSE AugmentingScan(st, vertex, Tail(edges), dest)

\* has_augmenting_path: the loop `while let Some(vertex) = queue.pop_front()`.
RECURSIVE AugmentingLoop(_, _, _)
AugmentingLoop(network, st, dest) ==
    IF st.found \/ st.queue = <<>> THEN st
    ELSE AugmentingLoop(network,
                        AugmentingScan([st EXCEPT !.queue = Tail(@)], Head(st.queue),
                                       At(network.out_edges, Head(st.queue)), dest),
                        dest)

\* has_augmenting_path: .found is the value returned, .edge_to what it leaves
\* in edge_to.
HasAugmentingPath(network, src, dest, edge_to_in) ==
    AugmentingLoop(network,
                   [marked |-> [i \in 1..network.nb_vertices |-> i - 1 = src],
                    edge_to |-> edge_to_in, queue |-> <<src>>, found |-> FALSE],
                   dest)

\* find_flows: the bottleneck loop, from vertex back to the source.
RECURSIVE PathFlow(_, _, _, _)
PathFlow(network, edge_to_in, vertex, path_flow) ==
    IF ~At(edge_to_in, vertex).some THEN path_flow
    ELSE LET parent_vertex == At(edge_to_in, vertex).value
             edges == At(network.out_edges, parent_vertex)
             res_cap == ResidualCapacity(edges[FindTo(edges, vertex)])
         IN  PathFlow(network, edge_to_in, parent_vertex, Min(path_flow, res_cap))

\* Mutant of UpdateFlows: only the edge that enters vertex is updated.
UpdateFlowsLastEdge(network, edge_to_in, vertex, path_flow) ==
    IF ~At(edge_to_in, vertex).some THEN network
    ELSE LET parent_vertex == At(edge_to_in, vertex).value
             f == FindTo(At(network.out_edges, parent_vertex), vertex)
             b == FindTo(At(network.back_edges, vertex), parent_vertex)
         IN  [network EXCEPT
                 !.out_edges[parent_vertex + 1][f] =
                     AddResidualFlowTo(@, vertex, path_flow),
                 !.back_edges[vertex + 1][b] =
                     AddResidualFlowTo(@, parent_vertex, path_flow)]

\* find_flows: the update loop, from vertex back to the source.
RECURSIVE UpdateFlows(_, _, _, _)
UpdateFlows(network, edge_to_in, vertex, path_flow) ==
    IF ~At(edge_to_in, vertex).some THEN network
    ELSE LET parent_vertex == At(edge_to_in, vertex).value
             f == FindTo(At(network.out_edges, parent_vertex), vertex)
             b == FindTo(At(network.back_edges, vertex), parent_vertex)
             n1 == [network EXCEPT
                       !.out_edges[parent_vertex + 1][f] =
                           AddResidualFlowTo(@, vertex, path_flow),
                       !.back_edges[vertex + 1][b] =
                           AddResidualFlowTo(@, parent_vertex, path_flow)]
         IN  UpdateFlows(n1, edge_to_in, parent_vertex, path_flow)

\* The network of the test (CLRS), 6 vertices, from 0 to 5.
ClrsVertices == 6

ClrsEdges ==
    << <<0, 1, 0, 16>>, <<0, 2, 0, 13>>, <<1, 3, 0, 12>>, <<2, 1, 0, 4>>,
       <<2, 4, 0, 14>>, <<3, 2, 0, 9>>, <<3, 5, 0, 20>>, <<4, 3, 0, 7>>,
       <<4, 5, 0, 4>> >>

ClrsNetwork == NetReplay(NetInit(ClrsVertices), ClrsEdges)

\* Networks on the vertices of the test network whose edges all go from a
\* smaller to a larger vertex, each with flow 0 and capacity 1, added in
\* increasing order; at most MaxLayeredEdges edges.
MaxLayeredEdges == 7

PairLess(a, b) == a[1] < b[1] \/ (a[1] = b[1] /\ a[2] < b[2])

RECURSIVE SortedPairs(_)
SortedPairs(S) ==
    IF S = {} THEN <<>>
    ELSE LET x == CHOOSE y \in S : \A z \in S : z = y \/ PairLess(y, z)
         IN  <<x>> \o SortedPairs(S \ {x})

UnitEdges(pairs) == [i \in 1..Len(pairs) |-> <<pairs[i][1], pairs[i][2], 0, 1>>]

LayeredNetworks ==
    {NetReplay(NetInit(ClrsVertices), UnitEdges(SortedPairs(E))) :
        E \in SubsetsUpTo({p \in (0..(ClrsVertices - 1)) \X (0..(ClrsVertices - 1)) :
                              p[1] < p[2]}, MaxLayeredEdges)}

\* Small networks: any edges with flow 0, parallel edges and self-loops
\* included, in any order.
SmallIds == 0..2

MaxSmallEdges == 2

MaxCapacity == 2

SmallNetworks ==
    {NetReplay(NetInit(Cardinality(SmallIds)), edges) :
        edges \in SeqsUpTo(SmallIds \X SmallIds \X {0} \X (0..MaxCapacity),
                           MaxSmallEdges)}

\* FordFulkerson::new, and the arguments of find_flows.
FInit ==
    /\ task = "find_flows" /\ kind = "FlowNetwork" /\ pc = "find_flows"
    /\ \/ /\ net \in {ClrsNetwork} \cup LayeredNetworks
          /\ ff_source = 0 /\ ff_destination = ClrsVertices - 1
       \/ /\ net \in SmallNetworks
          /\ ff_source \in SmallIds /\ ff_destination \in SmallIds \ {ff_source}
    /\ ff_edge_to = <<>> /\ max_flow = 0 /\ self_max_flow = None
    /\ dg = DiNew /\ ug = UgNew /\ wg = WgNew /\ added = {} /\ fv = NoVec
    /\ rr = NoGraph /\ aborted = FALSE
    /\ phase = 1 /\ v0 = 0 /\ marked = <<>> /\ edge_to = <<>> /\ stack = <<>>
    /\ queue = <<>> /\ loopv = 0 /\ nb_cc = 0
    /\ saved = [marked |-> <<>>, edge_to |-> <<>>]
    /\ DijkstraIdle
    /\ DataIdle

\* find_flows up to its loop: edge_to = vec![None; nb_vertices], max_flow = 0.
FindFlowsStart ==
    /\ task = "find_flows" /\ pc = "find_flows"
    /\ ff_edge_to' = [i \in 1..net.nb_vertices |-> None]
    /\ max_flow' = 0
    /\ pc' = "while"
    /\ UNCHANGED <<ff_source, ff_destination, self_max_flow, gvars, pvars, dvars>>
    /\ UNCHANGED <<task, phase, v0, marked, edge_to, stack, queue, loopv, nb_cc, saved>>

\* find_flows: has_augmenting_path returns true; one turn of the loop.
FindFlowsAugment ==
    /\ task = "find_flows" /\ pc = "while"
    /\ LET found == HasAugmentingPath(net, ff_source, ff_destination, ff_edge_to)
           path_flow == PathFlow(net, found.edge_to, ff_destination, WeightMax)
       IN  /\ found.found
           /\ ff_edge_to' = found.edge_to
           /\ net' = UpdateFlows(net, found.edge_to, ff_destination, path_flow)
           /\ max_flow' = max_flow + path_flow
    /\ UNCHANGED <<ff_source, ff_destination, self_max_flow, pvars, dvars>>
    /\ UNCHANGED <<kind, dg, ug, wg, added, fv, rr, aborted>>
    /\ UNCHANGED svars

\* find_flows: has_augmenting_path returns false; self.max_flow = Some(max_flow).
FindFlowsEnd ==
    /\ task = "find_flows" /\ pc = "while"
    /\ LET found == HasAugmentingPath(net, ff_source, ff_destination, ff_edge_to)
       IN  /\ ~found.found
           /\ ff_edge_to' = found.edge_to
    /\ self_max_flow' = Some(max_flow)
    /\ pc' = "done"
    /\ UNCHANGED <<ff_source, ff_destination, max_flow, gvars, pvars, dvars>>
    /\ UNCHANGED <<task, phase, v0, marked, edge_to, stack, queue, loopv, nb_cc, saved>>

FNext ==
    \/ FindFlowsStart
    \/ FindFlowsAugment
    \/ FindFlowsEnd

SpecFlow == FInit /\ [][FNext]_vars

\* The total capacity of the edges that leave the vertex set S.
CutCapacity(network, S) ==
    SumSeq([i \in 1..Len(network.out_edges) |->
               SumSeq([j \in 1..Len(network.out_edges[i]) |->
                          LET e == network.out_edges[i][j]
                          IN  IF e.from \in S /\ e.to \notin S THEN e.capacity ELSE 0])])

\* The capacity of a minimum cut between src and dest, which is the value of a
\* maximum flow.
MinCut(network, src, dest) ==
    SetMin({CutCapacity(network, S \cup {src}) :
               S \in SUBSET ((0..(network.nb_vertices - 1)) \ {src, dest})})

\* The network has the vertices, edges and capacities of the test network.
IsClrs(network) ==
    /\ network.nb_vertices = ClrsVertices
    /\ \A i \in 1..ClrsVertices :
          [j \in 1..Len(network.out_edges[i]) |->
              <<network.out_edges[i][j].from, network.out_edges[i][j].to,
                network.out_edges[i][j].capacity>>]
          = [j \in 1..Len(ClrsNetwork.out_edges[i]) |->
              <<ClrsNetwork.out_edges[i][j].from, ClrsNetwork.out_edges[i][j].to,
                ClrsNetwork.out_edges[i][j].capacity>>]

\* Claim C1: on a network whose edges all start with flow 0, after find_flows
\* max_flow() is the value of a maximum flow from the source to the
\* destination (the capacity of a minimum cut); on the test network it is 23.
C1_MaxFlowIsMinCut ==
    (task = "find_flows" /\ pc = "done") =>
        /\ self_max_flow = Some(MinCut(net, ff_source, ff_destination))
        /\ IsClrs(net) => self_max_flow = Some(23)

\* The total flow on the forward edges that enter (leave) vertex v.
FlowInto(network, v) ==
    SumSeq([i \in 1..Len(network.out_edges) |->
               SumSeq([j \in 1..Len(network.out_edges[i]) |->
                          LET e == network.out_edges[i][j]
                          IN  IF e.to = v THEN e.flow ELSE 0])])

FlowOutOf(network, v) ==
    SumSeq([j \in 1..Len(At(network.out_edges, v)) |-> At(network.out_edges, v)[j].flow])

\* Claim C15: after find_flows on a network whose edges all started with flow
\* 0, at every vertex other than the source and the destination the flows on
\* the forward edges that enter it add up to the flows on those that leave it.
C15_FlowConservation ==
    (task = "find_flows" /\ pc = "done") =>
        \A v \in (0..(net.nb_vertices - 1)) \ {ff_source, ff_destination} :
            FlowInto(net, v) = FlowOutOf(net, v)

\* find_flows has ended and has sent flow through an inner vertex.
C15_Witness ==
    /\ task = "find_flows" /\ pc = "done"
    /\ \E v \in (0..(net.nb_vertices - 1)) \ {ff_source, ff_destination} :
          FlowInto(net, v) > 0

------------------------------------------------------------------------------
(* A FlowNetwork built by its mutators, with find_flows called on it any   *)
(* number of times between them.                                           *)

\* The (flow, capacity) arguments given to add_edge here; W is one of the
\* signed types of impl_weight!.
NetFlowCapInputs == FlowCapInputs \cup {<<1, 2>>, <<-1, 1>>}

\* No call of find_flows is in progress.
FlowReturned == pc \in {"idle", "done"}

\* A mutator of the network is called.
NetMutatorCall ==
    /\ FlowReturned
    /\ \/ \E n \in 0..IndexMax : NetInitCall(n)
       \/ NetAddVertexCall
       \/ \E nb \in 1..IndexMax : NetAddVerticesCall(nb)
       \/ \E from \in Ids, to \in Ids, fc \in NetFlowCapInputs :
             NetAddEdgeCall(from, to, fc)

\* find_flows is called on the network, with two of its vertices.
FindFlowsCall ==
    /\ kind = "FlowNetwork" /\ ~aborted /\ FlowReturned
    /\ \E s \in 0..(net.nb_vertices - 1), t \in 0..(net.nb_vertices - 1) :
          /\ s < Len(net.out_edges) /\ t < Len(net.out_edges)
          /\ ff_source' = s /\ ff_destination' = t
    /\ task' = "find_flows" /\ pc' = "find_flows"
    /\ UNCHANGED <<ff_edge_to, max_flow, self_max_flow, gvars, pvars, dvars>>
    /\ UNCHANGED <<phase, v0, marked, edge_to, stack, queue, loopv, nb_cc, saved>>

NFInit == GInit /\ kind = "FlowNetwork"

NFNext ==
    \/ NetMutatorCall
    \/ FindFlowsCall
    \/ FindFlowsStart
    \/ FindFlowsAugment
    \/ FindFlowsEnd

SpecNetFlow == NFInit /\ [][NFNext]_vars

\* Every forward edge of the network carries a flow within its capacity.
FlowsWithinCapacity(network) ==
    \A i \in 1..Len(network.out_edges) : \A j \in 1..Len(network.out_edges[i]) :
        /\ 0 <= network.out_edges[i][j].flow
        /\ network.out_edges[i][j].flow <= network.out_edges[i][j].capacity

\* Claim C16: in every state reached through FlowNetwork::add_edge and
\* find_flows, between and after the augmenting rounds, every forward edge has
\* 0 <= flow <= capacity; add_edge with flow > capacity aborts and adds no edge.
C16_FlowWithinCapacity ==
    [][/\ FlowsWithinCapacity(net')
       /\ \A from \in Ids, to \in Ids, fc \in NetFlowCapInputs :
             (NetAddEdgeCall(from, to, fc) /\ fc[1] > fc[2])
                 => (aborted' /\ net' = net)]_vars

------------------------------------------------------------------------------
(* PriorityQueue  (src/src/data_structure/priority_queue.rs): a binary     *)
(* heap in vec[1..n-1]; vec holds Option<T>, vec[0] is always None.        *)

\* The keys inserted, and the most insert calls of a behaviour.
PqKeys == 1..3

MaxInserts == 4

PqCapacities == {1, 2, 3}

\* Ord for Option<T>, a < b: None is below every Some.
OptLess(a, b) == IF ~a.some THEN b.some ELSE b.some /\ a.value < b.value

\* The comparison of the two arms of swim and sink: a > b in a max-oriented
\* queue, a < b in a min-oriented one.
Beats(k, a, b) == IF k = "Max" THEN OptLess(b, a) ELSE OptLess(a, b)

\* PriorityQueue::with_capacity, capacity > 0
PqWithCapacity(capacity, k) ==
    [vec |-> [i \in 1..(capacity + 1) |-> None], kind |-> k, n |-> 1]

PqIsEmpty(q) == q.n = 1

PqLen(q) == q.n - 1

Extremum(q) == At(q.vec, 1)

Double(q) == [q EXCEPT !.vec = @ \o [i \in 1..Len(@) |-> None]]

Halve(q) == [q EXCEPT !.vec = SubSeq(@, 1, Len(@) \div 2)]

\* vec[k] = replace(&mut vec[j], vec[k].clone()): the two are exchanged.
Exchange(v, k, j) == [v EXCEPT ![k + 1] = At(v, j), ![j + 1] = At(v, k)]

RECURSIVE Swim(_, _)
Swim(q, k) ==
    IF k > 1 /\ Beats(q.kind, At(q.vec, k), At(q.vec, k \div 2))
    THEN Swim([q EXCEPT !.vec = Exchange(@, k, k \div 2)], k \div 2)
    ELSE q

\* PriorityQueue::insert panics when n is not below vec.len().
PqInsertPanics(q) == ~(q.n < Len(q.vec))

PqInsert(q, key) ==
    IF PqInsertPanics(q) THEN q
    ELSE LET q1 == Swim([q EXCEPT !.vec[q.n + 1] = Some(key)], q.n)
             q2 == [q1 EXCEPT !.n = @ + 1]
         IN  IF q2.n = Len(q2.vec) THEN Double(q2) ELSE q2

\* PriorityQueue::sink, on a queue that is not empty.
RECURSIVE Sink(_, _, _)
Sink(q, k, n) ==
    IF ~(2 * k < n) THEN q
    ELSE LET j0 == 2 * k
             j == IF j0 < n - 1 /\ Beats(q.kind, At(q.vec, j0 + 1), At(q.vec, j0))
                  THEN j0 + 1 ELSE j0
         IN  IF ~Beats(q.kind, At(q.vec, j), At(q.vec, k)) THEN q
             ELSE Sink([q EXCEPT !.vec = Exchange(@, k, j)], j, n)

\* PriorityQueue::delete panics on an empty queue.
PqDeletePanics(q) == PqIsEmpty(q)

\* PriorityQueue::delete on a queue that is not empty: .queue is the queue it
\* leaves, .res the value it returns.
PqDelete(q) ==
    LET res == At(q.vec, 1)
        last == At(q.vec, q.n - 1)
        q1 == [q EXCEPT !.vec = [[@ EXCEPT ![q.n] = None] EXCEPT ![2] = last]]
        q2 == Sink(q1, 1, q1.n)
        q3 == [q2 EXCEPT !.n = @ - 1]
    IN  [queue |-> IF q3.n <= Len(q3.vec) \div 4 THEN Halve(q3) ELSE q3,
         res |-> res]

\* The smallest (largest) of the keys of a bag that is not empty.
Best(k, stored) ==
    CHOOSE x \in BagToSet(stored) :
        \A y \in BagToSet(stored) : IF k = "Max" THEN y <= x ELSE x <= y

\* PriorityQueue::with_capacity(capacity, k), nothing inserted yet.
QInit ==
    /\ task = "queue"
    /\ \E capacity \in PqCapacities, k \in {"Max", "Min"} : pq = PqWithCapacity(capacity, k)
    /\ pq_log = [inserts |-> 0, deletes |-> 0, stored |-> EmptyBag, deleted |-> FALSE,
                 res |-> None, expected |-> None]
    /\ table = <<>>
    /\ ceil_res = [called |-> FALSE, key |-> 0, value |-> None]
    /\ del_res = None
    /\ examined = EmptyBag
    /\ kind = "none" /\ dg = DiNew /\ ug = UgNew /\ wg = WgNew /\ net = NetNew
    /\ added = {} /\ fv = NoVec /\ rr = NoGraph /\ aborted = FALSE
    /\ phase = 1 /\ pc = "idle" /\ v0 = 0
    /\ marked = <<>> /\ edge_to = <<>> /\ stack = <<>> /\ queue = <<>>
    /\ loopv = 0 /\ nb_cc = 0
    /\ saved = [marked |-> <<>>, edge_to |-> <<>>]
    /\ DijkstraIdle
    /\ FlowIdle

PqInsertCall(key) ==
    /\ task = "queue" /\ ~aborted
    /\ pq_log.inserts < MaxInserts
    /\ pq' = PqInsert(pq, key)
    /\ aborted' = PqInsertPanics(pq)
    /\ pq_log' = IF PqInsertPanics(pq) THEN pq_log
                 ELSE [pq_log EXCEPT !.inserts = @ + 1,
                                     !.stored = @ (+) SetToBag({key}),
                                     !.deleted = FALSE]
    /\ UNCHANGED <<kind, dg, ug, wg, net, added, fv, rr, svars, pvars, fvars,
                   table, ceil_res, del_res, examined>>

PqDeleteCall ==
    /\ task = "queue" /\ ~aborted
    /\ IF PqDeletePanics(pq)
       THEN /\ aborted' = TRUE
            /\ UNCHANGED <<pq, pq_log>>
       ELSE LET d == PqDelete(pq)
            IN  /\ pq' = d.queue
                /\ aborted' = FALSE
                /\ pq_log' =
                     [pq_log EXCEPT
                         !.deletes = @ + 1,
                         !.deleted = TRUE,
                         !.res = d.res,
                         !.expected = IF pq_log.stored = EmptyBag THEN None
                                      ELSE Some(Best(pq.kind, pq_log.stored)),
                         !.stored = IF d.res.some THEN @ (-) SetToBag({d.res.value})
                                    ELSE @]
    /\ UNCHANGED <<kind, dg, ug, wg, net, added, fv, rr, svars, pvars, fvars,
                   table, ceil_res, del_res, examined>>

QNext ==
    \/ \E key \in PqKeys : PqInsertCall(key)
    \/ PqDeleteCall

SpecQueue == QInit /\ [][QNext]_vars

\* Claim C18: in either orientation, while the queue holds an element,
\* extremum() shows the smallest (Min) or largest (Max) key stored, and a
\* delete has returned the key that was then the smallest (largest), so that
\* deleting until the queue is empty returns the keys in sorted order; len()
\* is the number of inserts minus the number of deletes.
C18_DeleteReturnsExtremum ==
    (task = "queue" /\ ~aborted) =>
        /\ PqLen(pq) = pq_log.inserts - pq_log.deletes
        /\ pq_log.inserts > pq_log.deletes =>
               Extremum(pq) = Some(Best(pq.kind, pq_log.stored))
        /\ pq_log.deleted => pq_log.res = pq_log.expected

\* Claim C19: on a queue that holds no element, new or emptied by delete,
\* extremum() returns None, and delete() returns None and does not abort.
C19_EmptyQueueReturnsNone ==
    [][/\ (task' = "queue" /\ ~aborted' /\ PqLen(pq') = 0) => Extremum(pq') = None
       /\ (PqDeleteCall /\ PqLen(pq) = 0) => (~aborted' /\ pq_log'.res = None)]_vars

------------------------------------------------------------------------------
(* OrdVecTable  (src/src/data_structure/tree_table.rs): a Vec of Pair kept *)
(* sorted by key, without duplicate keys; delete leaves the key with the   *)
(* value None.                                                             *)

\* The keys are 1..MaxKey; ceil is also asked for 0 and MaxKey + 1.
MaxKey == 4

TableValues == {1, 2}

\* Pair::init
Pair(key, value) == [first |-> key, second |-> value]

\* slice::binary_search on a vec sorted by key without duplicates, Pair being
\* compared by key: Ok(index of the key) or Err(index where it would go).
BinarySearch(v, key) ==
    IF \E i \in 1..Len(v) : v[i].first = key
    THEN [ok |-> TRUE, ind |-> (CHOOSE i \in 1..Len(v) : v[i].first = key) - 1]
    ELSE [ok |-> FALSE, ind |-> Cardinality({i \in 1..Len(v) : v[i].first < key})]

\* Vec::insert(ind, x)
VecInsert(v, ind, x) == SubSeq(v, 1, ind) \o <<x>> \o SubSeq(v, ind + 1, Len(v))

\* OrdVecTable::put, the table it leaves.
TablePut(v, key, value) ==
    LET index == BinarySearch(v, key)
    IN  IF index.ok THEN [v EXCEPT ![index.ind + 1].second = value]
        ELSE IF index.ind < Len(v) THEN VecInsert(v, index.ind, Pair(key, value))
        ELSE Append(v, Pair(key, value))

\* OrdVecTable::put, the value it returns: the one the key had.
TablePutReturns(v, key) ==
    LET index == BinarySearch(v, key)
    IN  IF index.ok THEN At(v, index.ind).second ELSE None

\* OrdVecTable::len, is_empty, min, max, get
TableLen(v) == Len(v)

TableIsEmpty(v) == TableLen(v) = 0

TableMin(v) == IF TableIsEmpty(v) THEN None ELSE Some(At(v, 0).first)

TableMax(v) == IF Len(v) = 0 THEN None ELSE Some(At(v, Len(v) - 1).first)

TableGet(v, key) ==
    LET index == BinarySearch(v, key)
    IN  IF index.ok THEN At(v, index.ind).second ELSE None

\* UnordVecTable::put: .k is where its loop stops, .vec the table it leaves,
\* .val the value it returns.
UnordPut(v, key, value) ==
    LET found == {i \in 1..Len(v) : v[i].first = key}
        k == IF found = {} THEN Len(v) ELSE SetMin(found) - 1
        val == IF found = {} THEN None ELSE At(v, k).second
        v1 == IF found = {} THEN v ELSE [v EXCEPT ![k + 1].second = value]
    IN  [k |-> k, val |-> val,
         vec |-> IF Len(v1) = 0 \/ (k = Len(v) /\ value.some)
                 THEN Append(v1, Pair(key, value)) ELSE v1]

\* UnordVecTable::get
UnordGet(v, key) ==
    LET found == {i \in 1..Len(v) : v[i].first = key}
    IN  IF found = {} THEN None ELSE v[SetMin(found)].second

\* OrdVecTable::ceil
Ceil(v, key) ==
    IF Len(v) = 0 THEN None
    ELSE LET index == BinarySearch(v, key)
         IN  IF index.ok THEN Some(At(v, index.ind).first)
             ELSE IF index.ind < Len(v) - 1 /\ index.ind > 0
                  THEN Some(At(v, index.ind + 1).first)
             ELSE IF index.ind = 0 THEN Some(At(v, 0).first)
             ELSE None

\* OrdVecTable::new
TInit ==
    /\ task \in {"table", "utable"}
    /\ table = <<>>
    /\ ceil_res = [called |-> FALSE, key |-> 0, value |-> None]
    /\ del_res = None
    /\ examined = EmptyBag
    /\ pq = [vec |-> <<>>, kind |-> "Max", n |-> 0]
    /\ pq_log = [inserts |-> 0, deletes |-> 0, stored |-> <<>>, deleted |-> FALSE,
                 res |-> None, expected |-> None]
    /\ kind = "none" /\ dg = DiNew /\ ug = UgNew /\ wg = WgNew /\ net = NetNew
    /\ added = {} /\ fv = NoVec /\ rr = NoGraph /\ aborted = FALSE
    /\ phase = 1 /\ pc = "idle" /\ v0 = 0
    /\ marked = <<>> /\ edge_to = <<>> /\ stack = <<>> /\ queue = <<>>
    /\ loopv = 0 /\ nb_cc = 0
    /\ saved = [marked |-> <<>>, edge_to |-> <<>>]
    /\ DijkstraIdle
    /\ FlowIdle

\* OrdVecTable::insert
TableInsertCall(key, value) ==
    /\ task = "table"
    /\ table' = TablePut(table, key, Some(value))
    /\ UNCHANGED <<gvars, svars, pvars, fvars, pq, pq_log, ceil_res, del_res, examined>>

\* OrdVecTable::delete
TableDeleteCall(key) ==
    /\ task = "table"
    /\ table' = TablePut(table, key, None)
    /\ del_res' = TablePutReturns(table, key)
    /\ UNCHANGED <<gvars, svars, pvars, fvars, pq, pq_log, ceil_res, examined>>

\* OrdVecTable::ceil
TableCeilCall(key) ==
    /\ task = "table"
    /\ ceil_res' = [called |-> TRUE, key |-> key, value |-> Ceil(table, key)]
    /\ UNCHANGED <<gvars, svars, pvars, fvars, pq, pq_log, table, del_res, examined>>

\* UnordVecTable::insert
UnordInsertCall(key, value) ==
    /\ task = "utable"
    /\ table' = UnordPut(table, key, Some(value)).vec
    /\ UNCHANGED <<gvars, svars, pvars, fvars, pq, pq_log, ceil_res, del_res, examined>>

\* UnordVecTable::delete
UnordDeleteCall(key) ==
    /\ task = "utable"
    /\ table' = UnordPut(table, key, None).vec
    /\ del_res' = UnordPut(table, key, None).val
    /\ UNCHANGED <<gvars, svars, pvars, fvars, pq, pq_log, ceil_res, examined>>

TNext ==
    \/ \E key \in 1..MaxKey, value \in TableValues : TableInsertCall(key, value)
    \/ \E key \in 1..MaxKey : TableDeleteCall(key)
    \/ \E key \in 0..(MaxKey + 1) : TableCeilCall(key)
    \/ \E key \in 1..MaxKey, value \in TableValues : UnordInsertCall(key, value)
    \/ \E key \in 1..MaxKey : UnordDeleteCall(key)

SpecTable == TInit /\ [][TNext]_vars

\* The keys the table holds.
TableKeys(v) == {v[i].first : i \in 1..Len(v)}

\* Claim C20: whatever the table holds, ceil(k) returns the smallest key of the
\* table that is greater than or equal to k, and None only when every key of
\* the table is smaller than k.
C20_CeilIsSmallestKeyNotBelow ==
    [][\A k \in 0..(MaxKey + 1) :
          TableCeilCall(k) =>
              LET above == {x \in TableKeys(table) : x >= k}
              IN  ceil_res'.value = IF above = {} THEN None ELSE Some(SetMin(above))]_vars

\* Claim C21: on an OrdVecTable or an UnordVecTable, delete(k) of a key the
\* table does not hold (an empty table included) returns None and leaves
\* len(), is_empty(), min(), max() and get of every key as they were.
C21_DeleteAbsentKeyChangesNothing ==
    [][\A k \in 1..MaxKey :
          /\ (TableDeleteCall(k) /\ k \notin TableKeys(table)) =>
                /\ del_res' = None
                /\ TableLen(table') = TableLen(table)
                /\ TableIsEmpty(table') = TableIsEmpty(table)
                /\ TableMin(table') = TableMin(table)
                /\ TableMax(table') = TableMax(table)
                /\ \A x \in 1..MaxKey : TableGet(table', x) = TableGet(table, x)
          /\ (UnordDeleteCall(k) /\ k \notin TableKeys(table)) =>
                /\ del_res' = None
                /\ Len(table') = Len(table)
                /\ \A x \in 1..MaxKey : UnordGet(table', x) = UnordGet(table, x)]_vars

\* The edges <<p, v>> of the path find_flows walks from vertex back to the
\* source through edge_to.
RECURSIVE AugmentingPath(_, _)
AugmentingPath(edge_to_in, vertex) ==
    IF ~At(edge_to_in, vertex).some THEN {}
    ELSE {<<At(edge_to_in, vertex).value, vertex>>}
             \cup AugmentingPath(edge_to_in, At(edge_to_in, vertex).value)

\* Claim C22: in a round of find_flows with bottleneck delta, for every edge
\* p -> v of the augmenting path the flow of the forward edge grows by delta and
\* the flow of the backward edge stored for v shrinks by delta; the flow of no
\* other edge changes.
C22_AugmentMovesDeltaAlongPath ==
    [][FindFlowsAugment =>
          LET delta == max_flow' - max_flow
              path  == AugmentingPath(ff_edge_to', ff_destination)
              Fwd(i) == {j \in 1..Len(net.out_edges[i]) :
                            \E e \in path :
                                /\ e[1] = i - 1
                                /\ j = FindTo(net.out_edges[i], e[2])}
              Bwd(i) == {j \in 1..Len(net.back_edges[i]) :
                            \E e \in path :
                                /\ e[2] = i - 1
                                /\ j = FindTo(net.back_edges[i], e[1])}
          IN  /\ \A i \in 1..Len(net.out_edges) : \A j \in 1..Len(net.out_edges[i]) :
                     net'.out_edges[i][j].flow =
                         net.out_edges[i][j].flow + (IF j \in Fwd(i) THEN delta ELSE 0)
              /\ \A i \in 1..Len(net.back_edges) : \A j \in 1..Len(net.back_edges[i]) :
                     net'.back_edges[i][j].flow =
                         net.back_edges[i][j].flow - (IF j \in Bwd(i) THEN delta ELSE 0)]_vars

\* find_flows is one call: once started, its loop keeps taking turns until
\* has_augmenting_path returns false, which weak fairness of its steps states.
\* It is checked on the small networks, which hold the parallel edges.
FLInit == FInit /\ net \in SmallNetworks

SpecFlowLive == FLInit /\ [][FNext]_vars /\ WF_vars(FNext)

\* Claim C23: find_flows terminates on every finite network with non-negative
\* integer capacities, parallel edges included: every round pushes a positive
\* bottleneck, so the loop reaches the point where no augmenting path is left.
C23_FindFlowsTerminates == <>(pc = "done")

-------------------------------------------------------------------------------
(* bellman_ford on an edge-weighted directed graph, dist_to and edge_to     *)
(* filled with the maximum by the caller.                                   *)

\* bellman_ford: the loop `for edge in adj_v` of vertex v, the edges met in
\* this order. dist_to[v] + w is a checked addition when overflow_checks.
RECURSIVE BellmanVisit(_, _, _)
BellmanVisit(st, v, edges) ==
    IF edges = <<>> \/ st.aborted THEN st
    ELSE LET u == Head(edges)[1]
             w == Head(edges)[2]
             st0 == [st EXCEPT !.examined = @ (+) SetToBag({WeightedDiEdge(v, u, w)})]
         IN  IF overflow_checks /\ WeightAddOverflows(At(st.dist_to, v), w)
             THEN [st0 EXCEPT !.aborted = TRUE]
             ELSE BellmanVisit(IF At(st.dist_to, u) > WeightAdd(At(st.dist_to, v), w)
                               THEN Relax(st0, v, u, w) ELSE st0,
                               v, Tail(edges))

\* The most edges of the graphs bellman_ford is given.
MaxBellmanEdges == 2

\* The caller's state before bellman_ford: a graph built by init and add_edge,
\* with fewer, as many or more edges than vertices.
BInit ==
    /\ task = "bellman" /\ kind = "EdgeWeightedDiGraph"
    /\ \E n \in DijkstraSizes :
          /\ \E E \in SubsetsUpTo((0..(n - 1)) \X (0..(n - 1)) \X DijkstraWeights,
                                 MaxBellmanEdges) :
                wg = WgReplay(WgInit(n), SetToSeq(E))
          /\ dj_source \in 0..(n - 1)
          /\ dist_to = [i \in 1..n |-> WeightMax]
          /\ edge_to = [i \in 1..n |-> IndexSentinel]
    /\ priority_queue = EmptyBag
    /\ overflow_checks \in BOOLEAN
    /\ pc = "bellman"
    /\ dg = DiNew /\ ug = UgNew /\ net = NetNew /\ added = {} /\ fv = NoVec
    /\ rr = NoGraph /\ aborted = FALSE
    /\ phase = 1 /\ v0 = 0 /\ marked = <<>> /\ stack = <<>> /\ queue = <<>>
    /\ loopv = 0 /\ nb_cc = 0 /\ saved = [marked |-> <<>>, edge_to |-> <<>>]
    /\ FlowIdle
    /\ DataIdle

\* bellman_ford up to its loop: dist_to[source] = 0.
BellmanStart ==
    /\ task = "bellman" /\ pc = "bellman"
    /\ dist_to' = [dist_to EXCEPT ![dj_source + 1] = 0]
    /\ loopv' = 0
    /\ pc' = "for"
    /\ UNCHANGED <<task, phase, v0, marked, edge_to, stack, queue, nb_cc, saved,
                   dj_source, priority_queue, overflow_checks, gvars, fvars, dvars>>

\* bellman_ford: one turn of `for v in 0..nb`, nb being graph.nb_edges().
\* out_edges(&vertex) indexes the vector of adjacency sets and panics for a
\* v that is not a vertex.
BellmanVertex ==
    /\ task = "bellman" /\ pc = "for" /\ loopv < wg.nb_edges
    /\ IF loopv >= Len(wg.out_edges)
       THEN /\ aborted' = TRUE /\ pc' = "done"
            /\ UNCHANGED <<dist_to, edge_to, examined>>
       ELSE \E edges \in Orders(EdgeInfoOutEdges(wg, loopv)) :
               LET st == BellmanVisit([dist_to |-> dist_to, edge_to |-> edge_to,
                                       examined |-> examined, aborted |-> FALSE],
                                      loopv, edges)
               IN  /\ dist_to' = st.dist_to
                   /\ edge_to' = st.edge_to
                   /\ examined' = st.examined
                   /\ aborted' = st.aborted
                   /\ pc' = IF st.aborted THEN "done" ELSE "for"
    /\ loopv' = loopv + 1
    /\ UNCHANGED <<kind, dg, ug, wg, net, added, fv, rr>>
    /\ UNCHANGED <<task, phase, v0, marked, stack, queue, nb_cc, saved, dj_source,
                   priority_queue, overflow_checks, fvars>>
    /\ UNCHANGED <<pq, pq_log, table, ceil_res, del_res>>

\* bellman_ford: the loop is over, the function returns.
BellmanEnd ==
    /\ task = "bellman" /\ pc = "for" /\ loopv = wg.nb_edges
    /\ pc' = "done"
    /\ UNCHANGED <<task, phase, v0, marked, edge_to, stack, queue, loopv, nb_cc,
                   saved, pvars, gvars, fvars, dvars>>

BNext ==
    \/ BellmanStart
    \/ BellmanVertex
    \/ BellmanEnd

SpecBellman == BInit /\ [][BNext]_vars

\* Claim C24: bellman_ford makes one pass that examines every edge of the
\* graph exactly once (the out-edges of each vertex 0 .. nb_vertices-1 once),
\* however many edges the graph has, and the pass does not abort.
C24_EveryEdgeExaminedOnce ==
    task = "bellman" =>
        /\ ~aborted
        /\ pc = "done" => \A e \in WgEdges : CopiesIn(e, examined) = 1

-------------------------------------------------------------------------------
(* shortest_path_faster_algorithm on an edge-weighted directed graph, with  *)
(* dist_to and edge_to filled with the maximum by the caller. queue is the  *)
(* deque, v0 the vertex popped, stack its out-edges still to examine.       *)

\* The most edges of the graphs shortest_path_faster_algorithm is given.
MaxSpfaEdges == 2

\* The caller's state before shortest_path_faster_algorithm.
SpfaInit ==
    /\ task = "spfa" /\ kind = "EdgeWeightedDiGraph"
    /\ \E n \in DijkstraSizes :
          /\ \E E \in SubsetsUpTo((0..(n - 1)) \X (0..(n - 1)) \X DijkstraWeights,
                                 MaxSpfaEdges) :
                wg = WgReplay(WgInit(n), SetToSeq(E))
          /\ dj_source \in 0..(n - 1)
          /\ dist_to = [i \in 1..n |-> WeightMax]
          /\ edge_to = [i \in 1..n |-> IndexSentinel]
    /\ priority_queue = EmptyBag
    /\ overflow_checks \in BOOLEAN
    /\ pc = "spfa"
    /\ dg = DiNew /\ ug = UgNew /\ net = NetNew /\ added = {} /\ fv = NoVec
    /\ rr = NoGraph /\ aborted = FALSE
    /\ phase = 1 /\ v0 = 0 /\ marked = <<>> /\ stack = <<>> /\ queue = <<>>
    /\ loopv = 0 /\ nb_cc = 0 /\ saved = [marked |-> <<>>, edge_to |-> <<>>]
    /\ FlowIdle
    /\ DataIdle

\* shortest_path_faster_algorithm up to its loop: dist_to[source] = 0 and
\* deque.push_back(source).
SpfaStart ==
    /\ task = "spfa" /\ pc = "spfa"
    /\ dist_to' = [dist_to EXCEPT ![dj_source + 1] = 0]
    /\ queue' = <<dj_source>>
    /\ pc' = "while"
    /\ UNCHANGED <<task, phase, v0, marked, edge_to, stack, loopv, nb_cc, saved,
                   dj_source, priority_queue, overflow_checks, gvars, fvars, dvars>>

\* `while let Some(vertex) = deque.pop_front()`: a vertex is popped and its
\* out-edges are taken in some order.
SpfaPop ==
    /\ task = "spfa" /\ pc = "while" /\ queue # <<>>
    /\ v0' = Head(queue)
    /\ queue' = Tail(queue)
    /\ \E edges \in Orders(EdgeInfoOutEdges(wg, Head(queue))) : stack' = edges
    /\ pc' = "for"
    /\ UNCHANGED <<task, phase, marked, edge_to, loopv, nb_cc, saved, pvars,
                   gvars, fvars, dvars>>

\* The edge `for (neighbor, weight) in adj` examines next improves the
\* distance of its end.
SpfaImproves ==
    /\ task = "spfa" /\ pc = "for" /\ stack # <<>>
    /\ ~(overflow_checks /\ WeightAddOverflows(At(dist_to, v0), Head(stack)[2]))
    /\ WeightAdd(At(dist_to, v0), Head(stack)[2]) < At(dist_to, Head(stack)[1])

\* One turn of `for (neighbor, weight) in adj`: relax, then the
\* Small-Label-First insertion; deque.get(0).expect(..) panics on an empty
\* deque, and push_back follows push_front.
SpfaEdge ==
    /\ task = "spfa" /\ pc = "for" /\ stack # <<>>
    /\ stack' = Tail(stack)
    /\ LET neighbor == Head(stack)[1]
           weight == Head(stack)[2]
           st == Relax([dist_to |-> dist_to, edge_to |-> edge_to], v0, neighbor, weight)
       IN  IF overflow_checks /\ WeightAddOverflows(At(dist_to, v0), weight)
           THEN /\ aborted' = TRUE /\ pc' = "done"
                /\ UNCHANGED <<dist_to, edge_to, queue>>
           ELSE IF ~SpfaImproves
           THEN UNCHANGED <<dist_to, edge_to, queue, aborted, pc>>
           ELSE /\ dist_to' = st.dist_to
                /\ edge_to' = st.edge_to
                /\ IF \E i \in 1..Len(queue) : queue[i] = neighbor
                   THEN UNCHANGED <<queue, aborted, pc>>
                   ELSE IF queue = <<>>
                   THEN /\ aborted' = TRUE /\ pc' = "done"
                        /\ queue' = queue
                   ELSE /\ queue' =
                              (IF At(st.dist_to, neighbor) < At(st.dist_to, Head(queue))
                               THEN <<neighbor>> \o queue ELSE queue)
                                  \o <<neighbor>>
                        /\ UNCHANGED <<aborted, pc>>
    /\ UNCHANGED <<kind, dg, ug, wg, net, added, fv, rr>>
    /\ UNCHANGED <<task, phase, v0, marked, loopv, nb_cc, saved, dj_source,
                   priority_queue, overflow_checks, fvars, dvars>>

\* The out-edges of the popped vertex are all examined.
SpfaNextVertex ==
    /\ task = "spfa" /\ pc = "for" /\ stack = <<>>
    /\ pc' = "while"
    /\ UNCHANGED <<task, phase, v0, marked, edge_to, stack, queue, loopv, nb_cc,
                   saved, pvars, gvars, fvars, dvars>>

\* deque.pop_front() returns None: the function returns.
SpfaEnd ==
    /\ task = "spfa" /\ pc = "while" /\ queue = <<>>
    /\ pc' = "done"
    /\ UNCHANGED <<task, phase, v0, marked, edge_to, stack, queue, loopv, nb_cc,
                   saved, pvars, gvars, fvars, dvars>>

SpfaNext ==
    \/ SpfaStart
    \/ SpfaPop
    \/ SpfaEdge
    \/ SpfaNextVertex
    \/ SpfaEnd

SpecSpfa == SpfaInit /\ [][SpfaNext]_vars

\* Claim C25: on a graph without a negative cycle and from every source,
\* shortest_path_faster_algorithm runs to completion without aborting and
\* leaves in dist_to[v] the least total weight of a path from the source to v,
\* for every v reachable from the source.
C25_SpfaCompletesWithShortestDistances ==
    task = "spfa" =>
        /\ ~aborted
        /\ pc = "done" =>
              \A v \in 0..(wg.nb_vertices - 1) :
                  At(MinWeights(dj_source, wg.nb_vertices), v) < WeightMax =>
                      At(dist_to, v) = At(MinWeights(dj_source, wg.nb_vertices), v)

\* Claim C26: in shortest_path_faster_algorithm a vertex whose distance has
\* just improved and that is not queued is enqueued exactly once, at the front
\* when its new distance is smaller than that of the front element and at the
\* back otherwise, so the queue never holds a vertex twice.
C26_ImprovedVertexEnqueuedOnce ==
    [][(SpfaEdge /\ SpfaImproves /\ \A i \in 1..Len(queue) : queue[i] # Head(stack)[1]) =>
          LET neighbor == Head(stack)[1]
          IN  /\ ~aborted'
              /\ queue' = IF queue # <<>> /\ At(dist_to', neighbor) < At(dist_to', Head(queue))
                          THEN <<neighbor>> \o queue
                          ELSE queue \o <<neighbor>>
              /\ \A i, j \in 1..Len(queue') : queue'[i] = queue'[j] => i = j]_vars

-------------------------------------------------------------------------------
(* find_flows called twice on the same structure, network, source and       *)
(* destination; phase counts the calls.                                     *)

\* The caller calls find_flows again once the first call has returned.
FindFlowsAgain ==
    /\ task = "find_flows" /\ pc = "done" /\ phase = 1
    /\ phase' = 2
    /\ pc' = "find_flows"
    /\ UNCHANGED <<task, v0, marked, edge_to, stack, queue, loopv, nb_cc, saved>>
    /\ UNCHANGED <<gvars, pvars, fvars, dvars>>

FTNext ==
    \/ FindFlowsStart
    \/ FindFlowsAugment
    \/ FindFlowsEnd
    \/ FindFlowsAgain

SpecFlowTwice == FInit /\ [][FTNext]_vars

\* Claim C30: after find_flows on a network that started with flow 0,
\* max_flow() is the net flow that leaves the source, and a second find_flows
\* on the same network, source and destination leaves max_flow() as it was.
C30_MaxFlowStableUnderRerun ==
    [][FindFlowsEnd =>
          /\ phase = 1 =>
                self_max_flow' = Some(FlowOutOf(net', ff_source) - FlowInto(net', ff_source))
          /\ phase = 2 => self_max_flow' = self_max_flow]_vars

====
